---- MODULE Spec2Model ----
(***************************************************************************)
(* Manifest-graph modification pipeline of regclient (package mod) with    *)
(* the rebase step, the descriptor predicates of package types, and the    *)
(* artifact upload of regctl.                                              *)
(*                                                                         *)
(* Content addressing is modelled by digests that carry the content they   *)
(* name: a digest is <<"sha256", content>>, so two digests are equal       *)
(* exactly when the contents are, and a blob or manifest is read back from *)
(* its digest.  The zero digest of a manifest or config descriptor is <<>>.*)
(* Go pointers, nil slices and nil maps are options: Nil or Some(x).       *)
(***************************************************************************)
EXTENDS Integers, Sequences, FiniteSets, TLC

Nil == <<>>

Some(x) == <<x>>

\* ---------------------------------------------------------------------------
\* Bounds of the model
\* ---------------------------------------------------------------------------
\* steps registered in one pipeline of the full specification
MaxSteps == 2

\* entries a derived image adds on top of its base
MaxExtra == 1

\* layer nodes marked added before a rebase step runs
MaxAdded == 1

\* ---------------------------------------------------------------------------
\* Media types and the Docker to OCI table
\* ---------------------------------------------------------------------------
MediaTypeDocker2ManifestList == "docker.manifest.list.v2"

MediaTypeDocker2Manifest == "docker.manifest.v2"

MediaTypeDocker2ImageConfig == "docker.image.config.v1"

MediaTypeDocker2LayerGzip == "docker.layer.tar.gzip"

MediaTypeDocker2ForeignLayer == "docker.foreign.layer.tar.gzip"

MediaTypeOCI1ManifestList == "oci.image.index.v1"

MediaTypeOCI1Manifest == "oci.image.manifest.v1"

MediaTypeOCI1ImageConfig == "oci.image.config.v1"

MediaTypeOCI1Layer == "oci.layer.tar"

MediaTypeOCI1LayerGzip == "oci.layer.tar+gzip"

MediaTypeOCI1LayerZstd == "oci.layer.tar+zstd"

MediaTypeOCI1ForeignLayer == "oci.foreign.layer.tar"

MediaTypeOCI1ForeignLayerGzip == "oci.foreign.layer.tar+gzip"

MediaTypeOCI1ForeignLayerZstd == "oci.foreign.layer.tar+zstd"

mtToOCI ==
  (MediaTypeDocker2ManifestList :> MediaTypeOCI1ManifestList)
  @@ (MediaTypeDocker2Manifest :> MediaTypeOCI1Manifest)
  @@ (MediaTypeDocker2ImageConfig :> MediaTypeOCI1ImageConfig)
  @@ (MediaTypeDocker2LayerGzip :> MediaTypeOCI1LayerGzip)
  @@ (MediaTypeOCI1ManifestList :> MediaTypeOCI1ManifestList)
  @@ (MediaTypeOCI1Manifest :> MediaTypeOCI1Manifest)
  @@ (MediaTypeOCI1ImageConfig :> MediaTypeOCI1ImageConfig)
  @@ (MediaTypeOCI1LayerGzip :> MediaTypeOCI1LayerGzip)

\* a Go map read: the zero value "" for a key that is not in the map
MapGet(mp, k) == IF k \in DOMAIN mp THEN mp[k] ELSE ""

\* ---------------------------------------------------------------------------
\* Descriptors
\* ---------------------------------------------------------------------------
\* Descriptor{MediaType, Digest, Size}: every other field at its zero value
Descriptor(mt, dig, size) ==
  [MediaType |-> mt, Digest |-> dig, Size |-> size, URLs |-> Nil,
   Annotations |-> Nil, Platform |-> Nil, ArtifactType |-> ""]

\* platform.Match: the two platforms name the same os/architecture/variant
PlatformMatch(p1, p2) == p1 = p2

\* Same looking both media types up in the table even when they are equal
SameTableOnly(d, d2) ==
  IF d.Digest # d2.Digest \/ d.Size # d2.Size THEN FALSE
  ELSE IF d.MediaType \notin DOMAIN mtToOCI THEN FALSE
  ELSE IF mtToOCI[d.MediaType] # MapGet(mtToOCI, d2.MediaType) THEN FALSE
  ELSE TRUE

Same(d, d2) ==
  IF d.Digest # d2.Digest \/ d.Size # d2.Size THEN FALSE
  ELSE IF d.MediaType # d2.MediaType
       THEN IF d.MediaType \notin DOMAIN mtToOCI THEN FALSE
            ELSE IF mtToOCI[d.MediaType] # MapGet(mtToOCI, d2.MediaType) THEN FALSE
            ELSE TRUE
       ELSE TRUE

Equal(d, d2) ==
  IF ~Same(d, d2) THEN FALSE
  ELSE IF d.MediaType # d2.MediaType THEN FALSE
  ELSE IF d.ArtifactType # d2.ArtifactType THEN FALSE
  ELSE IF (d.Platform = Nil \/ d2.Platform = Nil)
          /\ (d.Platform # Nil \/ d2.Platform # Nil) THEN FALSE
  ELSE IF d.Platform # Nil /\ d2.Platform # Nil
          /\ ~PlatformMatch(d.Platform[1], d2.Platform[1]) THEN FALSE
  ELSE IF (d.URLs = Nil \/ d2.URLs = Nil)
          /\ (d.URLs # Nil \/ d2.URLs # Nil) THEN FALSE
  ELSE IF d.URLs # Nil /\ d2.URLs # Nil
          /\ Len(d.URLs[1]) # Len(d2.URLs[1]) THEN FALSE
  ELSE IF d.URLs # Nil /\ d2.URLs # Nil
          /\ \E i \in 1..Len(d.URLs[1]) : d.URLs[1][i] # d2.URLs[1][i] THEN FALSE
  ELSE IF (d.Annotations = Nil \/ d2.Annotations = Nil)
          /\ (d.Annotations # Nil \/ d2.Annotations # Nil) THEN FALSE
  ELSE IF d.Annotations # Nil /\ d2.Annotations # Nil
          /\ Cardinality(DOMAIN d.Annotations[1]) # Cardinality(DOMAIN d2.Annotations[1])
       THEN FALSE
  ELSE IF d.Annotations # Nil /\ d2.Annotations # Nil
          /\ \E k \in DOMAIN d.Annotations[1] :
                d.Annotations[1][k] # MapGet(d2.Annotations[1], k) THEN FALSE
  ELSE TRUE

\* platform.Compatible: a host of platform host can run an image of platform
\* target (a darwin host runs linux images of its architecture)
PlatformCompatible(host, target) ==
  /\ host.Architecture = target.Architecture
  /\ host.Variant = target.Variant
  /\ (host.OS = target.OS \/ (host.OS = "darwin" /\ target.OS = "linux"))

\* MatchOpt
MatchOpt(plat, artifactType, annots, sortAnnotation, sortDesc) ==
  [Platform |-> plat, ArtifactType |-> artifactType, Annotations |-> annots,
   SortAnnotation |-> sortAnnotation, SortDesc |-> sortDesc]

Match(d, opt) ==
  IF opt.ArtifactType # "" /\ d.ArtifactType # opt.ArtifactType THEN FALSE
  ELSE IF opt.Annotations # Nil /\ Cardinality(DOMAIN opt.Annotations[1]) > 0
          /\ d.Annotations = Nil THEN FALSE
  ELSE IF opt.Annotations # Nil /\ Cardinality(DOMAIN opt.Annotations[1]) > 0
          /\ \E k \in DOMAIN opt.Annotations[1] :
                \/ k \notin DOMAIN d.Annotations[1]
                \/ (opt.Annotations[1][k] # "" /\ opt.Annotations[1][k] # d.Annotations[1][k])
       THEN FALSE
  ELSE IF opt.Platform # Nil /\ d.Platform = Nil THEN FALSE
  ELSE IF opt.Platform # Nil /\ ~PlatformCompatible(opt.Platform[1], d.Platform[1]) THEN FALSE
  ELSE TRUE

\* the annotation values of the model in the order of their bytes
StringOrder == <<"", "1", "2">>

\* strings.Compare
stringsCompare(a, b) ==
  LET rank(x) == CHOOSE i \in 1..Len(StringOrder) : StringOrder[i] = x
  IN IF a = b THEN 0 ELSE IF rank(a) < rank(b) THEN -1 ELSE 1

\* sortLess comparing the values alone, a missing annotation read as ""
sortLessValues(di, dj, opt) ==
  IF di.Annotations = Nil THEN FALSE
  ELSE IF opt.SortAnnotation \notin DOMAIN di.Annotations[1] THEN FALSE
  ELSE IF stringsCompare(di.Annotations[1][opt.SortAnnotation],
                         IF dj.Annotations = Nil THEN ""
                         ELSE MapGet(dj.Annotations[1], opt.SortAnnotation)) < 0
       THEN ~opt.SortDesc
  ELSE opt.SortDesc

\* the less function DescriptorListFilter hands to sort.Slice
sortLess(di, dj, opt) ==
  IF di.Annotations = Nil THEN FALSE
  ELSE IF opt.SortAnnotation \notin DOMAIN di.Annotations[1] THEN FALSE
  ELSE IF dj.Annotations = Nil THEN TRUE
  ELSE IF opt.SortAnnotation \notin DOMAIN dj.Annotations[1] THEN TRUE
  ELSE IF stringsCompare(di.Annotations[1][opt.SortAnnotation],
                         dj.Annotations[1][opt.SortAnnotation]) < 0
       THEN ~opt.SortDesc
  ELSE opt.SortDesc

\* sort.Slice on a slice of at most 12 elements is an insertion sort: element
\* i is swapped towards the front while it is less than the one before it
RECURSIVE insertionSortInner(_, _, _)
insertionSortInner(data, j, opt) ==
  IF j > 1 /\ sortLess(data[j], data[j - 1], opt)
  THEN insertionSortInner([data EXCEPT ![j] = data[j - 1], ![j - 1] = data[j]], j - 1, opt)
  ELSE data

RECURSIVE insertionSort(_, _, _)
insertionSort(data, i, opt) ==
  IF i > Len(data) THEN data
  ELSE insertionSort(insertionSortInner(data, i, opt), i + 1, opt)

sortSlice(data, opt) == insertionSort(data, 2, opt)

DescriptorListFilter(dl, opt) ==
  LET ret == SelectSeq(dl, LAMBDA d : Match(d, opt))
  IN IF opt.SortAnnotation # "" THEN sortSlice(ret, opt) ELSE ret

\* what DescriptorListSearch returns: a descriptor and an error
searchReturn(d, e) == [d |-> d, err |-> e]

\* DescriptorListSearch without the preference for an exact platform
DescriptorListSearchFirst(dl, opt) ==
  LET filter == DescriptorListFilter(dl, opt)
  IN IF Len(filter) < 1 THEN searchReturn(Descriptor("", "", 0), "ErrNotFound")
     ELSE searchReturn(filter[1], "")

DescriptorListSearch(dl, opt) ==
  LET filter == DescriptorListFilter(dl, opt)
      exact == {i \in 1..Len(filter) : PlatformMatch(opt.Platform[1], filter[i].Platform[1])}
  IN IF Len(filter) < 1 THEN searchReturn(Descriptor("", "", 0), "ErrNotFound")
     ELSE IF opt.Platform # Nil /\ exact # {}
          THEN searchReturn(filter[CHOOSE i \in exact : \A j \in exact : i <= j], "")
     ELSE searchReturn(filter[1], "")

\* ---------------------------------------------------------------------------
\* Manifests, configs and their descriptors
\* ---------------------------------------------------------------------------
\* modification states of a DAG node
unchanged == "unchanged"

replaced == "replaced"

added == "added"

deleted == "deleted"

\* the zero Descriptor{} of a manifest or config node
ZeroDesc == Descriptor("", Nil, 0)

\* the zero Descriptor{} of a layer node
ZeroLayerDesc == Descriptor("", "", 0)

\* GetDescriptor of an image config: digest over the serialized config
ConfigDescriptor(oc) ==
  Descriptor(MediaTypeOCI1ImageConfig, <<"sha256", oc>>,
             Len(oc.History) + Len(oc.RootFS.DiffIDs))

\* json omitempty: an empty list or map is written like an absent one
omitempty(opt) == IF opt # Nil /\ opt[1] = <<>> THEN Nil ELSE opt

\* the serialized form of a manifest, the bytes its digest is taken over
Serialize(m) ==
  [m EXCEPT !.Annotations = omitempty(m.Annotations),
            !.Layers = [i \in 1..Len(m.Layers) |->
                          [m.Layers[i] EXCEPT !.URLs = omitempty(m.Layers[i].URLs),
                                              !.Annotations = omitempty(m.Layers[i].Annotations)]]]

\* GetDescriptor of a manifest: digest over the serialized manifest
ManifestDescriptor(m) ==
  Descriptor(m.MediaType, <<"sha256", Serialize(m)>>, Len(m.Layers) + Len(m.Manifests))

\* an image config
OCIConfig(plat, history, diffIDs, labels) ==
  [Platform |-> plat, History |-> history, RootFS |-> [DiffIDs |-> diffIDs],
   Labels |-> labels]

\* an image manifest referring to its config by descriptor
ImageManifest(mt, annotations, oc, layers) ==
  [IsList |-> FALSE, MediaType |-> mt, Annotations |-> annotations,
   Config |-> ConfigDescriptor(oc), Layers |-> layers, Manifests |-> <<>>]

\* an index referring to its child manifests by descriptor
IndexManifest(mt, annotations, manifests) ==
  [IsList |-> TRUE, MediaType |-> mt, Annotations |-> annotations,
   Config |-> ZeroDesc, Layers |-> <<>>, Manifests |-> manifests]

\* the content a digest names (blob or manifest read by digest)
Content(dig) == dig[2]

\* ---------------------------------------------------------------------------
\* Registry content: the base images a rebase can name
\* ---------------------------------------------------------------------------
Platform(os, arch) == [OS |-> os, Architecture |-> arch, Variant |-> ""]

LinuxAmd64 == Platform("linux", "amd64")

LinuxArm64 == Platform("linux", "arm64")

\* a history entry of an image config; Created is a *time.Time
History(author, created, createdBy, emptyLayer) ==
  [Author |-> author, Comment |-> "", Created |-> created,
   CreatedBy |-> createdBy, EmptyLayer |-> emptyLayer]

\* history entry of a build step that produced layer x
HL(x) == History("dev", Some(1), x, FALSE)

\* history entry of a build step that produced no layer
HE(x) == History("dev", Some(1), x, TRUE)

\* a gzip layer blob with OCI media type
L(x) == Descriptor(MediaTypeOCI1LayerGzip, x, 10)

\* the same blob as L(x) under its Docker media type
LDocker(x) == Descriptor(MediaTypeDocker2LayerGzip, x, 10)

\* a layer held outside the registry
LForeign(x) ==
  [Descriptor(MediaTypeOCI1ForeignLayerGzip, x, 10) EXCEPT !.URLs = Some(<<"https://example.com/" \o x>>)]

BaseImage(layers, history, diffIDs) ==
  ImageManifest(MediaTypeOCI1Manifest, Nil,
                OCIConfig(LinuxAmd64, history, diffIDs, Nil), layers)

\* base v1: two layers
ImgB1 == BaseImage(<<L("a"), L("b")>>, <<HL("a"), HE("env"), HL("b")>>, <<"diff:a", "diff:b">>)

\* base v1 as stored by a Docker build: same blobs, Docker media types
ImgB1Docker ==
  BaseImage(<<LDocker("a"), LDocker("b")>>, <<HL("a"), HE("env"), HL("b")>>, <<"diff:a", "diff:b">>)

\* base v2: three layers
ImgB2 ==
  BaseImage(<<L("c"), L("d"), L("e")>>, <<HL("c"), HL("d"), HE("cmd"), HL("e")>>,
            <<"diff:c", "diff:d", "diff:e">>)

\* the first layer of base v1 alone
ImgB3 == BaseImage(<<L("a")>>, <<HL("a")>>, <<"diff:a">>)

\* an image whose history names fewer layers than its manifest
ImgBadHistory == BaseImage(<<L("a"), L("b")>>, <<HL("a"), HE("env")>>, <<"diff:a", "diff:b">>)

\* an image whose rootfs names fewer layers than its manifest
ImgBadRootFS == BaseImage(<<L("a"), L("b")>>, <<HL("a"), HE("env"), HL("b")>>, <<"diff:a">>)

\* base v1 with a history entry that carries no created time
ImgNoCreated ==
  BaseImage(<<L("a"), L("b")>>, <<HL("a"), History("dev", Nil, "env", TRUE), HL("b")>>,
            <<"diff:a", "diff:b">>)

\* base v2 for arm64
ImgB2Arm ==
  ImageManifest(MediaTypeOCI1Manifest, Nil,
                OCIConfig(LinuxArm64, <<HL("f")>>, <<"diff:f">>, Nil), <<L("f")>>)

ChildDesc(m, plat) == [ManifestDescriptor(m) EXCEPT !.Platform = Some(plat)]

\* a multi-platform base: v2 for amd64 and for arm64
IdxB2 ==
  IndexManifest(MediaTypeOCI1ManifestList, Nil,
                <<ChildDesc(ImgB2, LinuxAmd64), ChildDesc(ImgB2Arm, LinuxArm64)>>)

\* a multi-platform base without an amd64 child
IdxArmOnly ==
  IndexManifest(MediaTypeOCI1ManifestList, Nil, <<ChildDesc(ImgB2Arm, LinuxArm64)>>)

\* a reference by tag, or pinned to a digest
Ref(name) == [Name |-> name, Digest |-> Nil]

RefDigest(name, dig) == [Name |-> name, Digest |-> dig]

\* tags the registry resolves
Registry ==
  [b1 |-> ImgB1, b1docker |-> ImgB1Docker, b2 |-> ImgB2, b3 |-> ImgB3,
   badhistory |-> ImgBadHistory, badrootfs |-> ImgBadRootFS, nocreated |-> ImgNoCreated,
   idx2 |-> IdxB2, idxarm |-> IdxArmOnly]

\* manifests the registry holds, each readable by its digest
RegistryManifests == {Registry[t] : t \in DOMAIN Registry} \cup {ImgB2Arm}

\* references a caller can pass: every tag, a tag the registry does not have,
\* and base v1 pinned to its digest
Refs ==
  {Ref(t) : t \in DOMAIN Registry} \cup {Ref("gone")}
  \cup {RefDigest("b1", ManifestDescriptor(ImgB1).Digest)}

\* ---------------------------------------------------------------------------
\* Registry calls.  failed: the transport reports an error for this call
\* ---------------------------------------------------------------------------
\* rc.ManifestGet
ManifestGet(r, failed) ==
  IF failed THEN [err |-> "error", m |-> Nil]
  ELSE IF r.Digest # Nil
       THEN IF Content(r.Digest) \in RegistryManifests
            THEN [err |-> "", m |-> Some(Content(r.Digest))]
            ELSE [err |-> "ErrNotFound", m |-> Nil]
  ELSE IF r.Name \notin DOMAIN Registry THEN [err |-> "ErrNotFound", m |-> Nil]
  ELSE [err |-> "", m |-> Some(Registry[r.Name])]

\* rc.BlobGetOCIConfig
BlobGetOCIConfig(cd, failed) ==
  IF failed THEN [err |-> "error", oc |-> Nil]
  ELSE [err |-> "", oc |-> Some(Content(cd.Digest))]

\* manifest.GetPlatformDesc: the child of an index for a platform
GetPlatformDesc(m, p) ==
  LET hits == {i \in 1..Len(m.Manifests) :
                 m.Manifests[i].Platform # Nil /\ PlatformMatch(p, m.Manifests[i].Platform[1])}
  IN IF hits = {} THEN [err |-> "ErrNotFound", d |-> ZeroDesc]
     ELSE [err |-> "", d |-> m.Manifests[CHOOSE i \in hits : \A j \in hits : i <= j]]

\* ---------------------------------------------------------------------------
\* DAG nodes
\* ---------------------------------------------------------------------------
\* a layer node as the DAG builder creates it
dagLayer(desc, ucDigest) ==
  [mod |-> unchanged, ucDigest |-> ucDigest, desc |-> desc, newDesc |-> ZeroLayerDesc]

\* the config node of an image manifest
dagOCIConfig(oc) == [oc |-> oc, modified |-> FALSE, newDesc |-> ZeroDesc]

\* a manifest node as the DAG builder creates it
dagManifest(m, top, config, layers) ==
  [m |-> m, top |-> top, mod |-> unchanged, newDesc |-> ZeroDesc,
   config |-> config, layers |-> layers]

\* ---------------------------------------------------------------------------
\* The rebase step
\* ---------------------------------------------------------------------------
\* registry calls of one invocation, in the order a failure can be injected
FailGetOld == 1

FailGetNew == 2

FailGetOldChild == 3

FailGetNewChild == 4

FailConfigOld == 5

FailConfigNew == 6

FailCopy == 6

\* the run-time panics of the step: a nil *time.Time dereferenced, a slice
\* indexed past its end
PanicNil == "panic: nil pointer dereference"

PanicIndex == "panic: index out of range"

\* a call of rc.ManifestGet made by the step: the reference, the base it
\* belongs to, whether it is the reference the option named or a child of
\* its index, and the error returned
Fetch(r, base, top, e) == [r |-> r, base |-> base, top |-> top, err |-> e]

\* what one invocation of the step returns and leaves behind
rebaseReturn(err, dm, mbOldCache, mbNewCache, copied, fetched) ==
  [err |-> err, dm |-> dm, mbOldCache |-> mbOldCache, mbNewCache |-> mbNewCache,
   copied |-> copied, fetched |-> fetched]

\* number of history entries that stand for a layer
historyLayers(history) == Cardinality({i \in 1..Len(history) : ~history[i].EmptyLayer})

\* comparison of one history entry of the image with the old base's entry;
\* Created is dereferenced once author and comment are found equal
historyCompare(h, hOld) ==
  IF h.Author # hOld.Author \/ h.Comment # hOld.Comment THEN "mismatch"
  ELSE IF h.Created = Nil \/ hOld.Created = Nil THEN PanicNil
  ELSE IF h.Created[1] # hOld.Created[1] \/ h.CreatedBy # hOld.CreatedBy
          \/ h.EmptyLayer # hOld.EmptyLayer THEN "mismatch"
  ELSE "ok"

\* the image has the old base's layers
validateLayers(layers, layersOld) ==
  IF Len(layersOld) > Len(layers) THEN "ErrMismatch"
  ELSE IF \E i \in 1..Len(layersOld) : ~Same(layers[i], layersOld[i]) THEN "ErrMismatch"
  ELSE ""

\* the image has the old base's history; the scan stops at the first entry
\* that differs or cannot be compared
validateHistory(confOCI, confOCIOld) ==
  LET bad == {i \in 1..Len(confOCIOld.History) :
                i <= Len(confOCI.History)
                /\ historyCompare(confOCI.History[i], confOCIOld.History[i]) # "ok"}
      first == CHOOSE i \in bad : \A j \in bad : i <= j
  IN IF Len(confOCIOld.History) > Len(confOCI.History) THEN "ErrMismatch"
     ELSE IF bad = {} THEN ""
     ELSE IF historyCompare(confOCI.History[first], confOCIOld.History[first]) = PanicNil
          THEN PanicNil
     ELSE "ErrMismatch"

\* validateOldCount without the comparison against the history
validateOldCountRootFSOnly(layersOld, confOCIOld) ==
  IF Len(layersOld) # Len(confOCIOld.RootFS.DiffIDs) THEN "ErrMismatch" ELSE ""

\* the old base's layer count matches its history and its rootfs
validateOldCount(layersOld, confOCIOld) ==
  IF Len(layersOld) # historyLayers(confOCIOld.History)
     \/ Len(layersOld) # Len(confOCIOld.RootFS.DiffIDs) THEN "ErrMismatch"
  ELSE ""

\* validateRootFS without the comparison of the entries
validateRootFSLength(confOCI, confOCIOld) ==
  IF Len(confOCIOld.RootFS.DiffIDs) > Len(confOCI.RootFS.DiffIDs) THEN "ErrMismatch" ELSE ""

\* the image has the old base's rootfs entries
validateRootFS(confOCI, confOCIOld) ==
  IF Len(confOCIOld.RootFS.DiffIDs) > Len(confOCI.RootFS.DiffIDs) THEN "ErrMismatch"
  ELSE IF \E i \in 1..Len(confOCIOld.RootFS.DiffIDs) :
             confOCI.RootFS.DiffIDs[i] # confOCIOld.RootFS.DiffIDs[i] THEN "ErrMismatch"
  ELSE ""

\* validate new base
validateNew(layersNew, confOCINew) ==
  IF Len(layersNew) # historyLayers(confOCINew.History)
     \/ Len(confOCINew.RootFS.DiffIDs) # historyLayers(confOCINew.History) THEN "error"
  ELSE ""

\* validate current base, then validate new base: "" when all checks pass,
\* else what the first failing check returns
rebaseValidate(layers, confOCI, layersOld, confOCIOld, layersNew, confOCINew) ==
  IF validateLayers(layers, layersOld) # "" THEN validateLayers(layers, layersOld)
  ELSE IF validateHistory(confOCI, confOCIOld) # "" THEN validateHistory(confOCI, confOCIOld)
  ELSE IF validateOldCount(layersOld, confOCIOld) # "" THEN validateOldCount(layersOld, confOCIOld)
  ELSE IF validateRootFS(confOCI, confOCIOld) # "" THEN validateRootFS(confOCI, confOCIOld)
  ELSE validateNew(layersNew, confOCINew)

RECURSIVE pruneLayers(_, _, _)
\* pruneLayers without the test for added nodes: the first pruneNum nodes go
pruneLayersFirst(layers, i, pruneNum) ==
  [panic |-> pruneNum > Len(layers), layers |-> SubSeq(layers, pruneNum + 1, Len(layers))]

\* the loop that deletes the old base's nodes from dm.layers; i counts from 0
pruneLayers(layers, i, pruneNum) ==
  IF pruneNum <= 0 THEN [panic |-> FALSE, layers |-> layers]
  ELSE IF i >= Len(layers) THEN [panic |-> TRUE, layers |-> layers]
  ELSE IF layers[i + 1].mod = added THEN pruneLayers(layers, i + 1, pruneNum)
  ELSE IF i = 0 THEN pruneLayers(SubSeq(layers, 2, Len(layers)), i, pruneNum - 1)
  ELSE IF i >= Len(layers) - 1 THEN pruneLayers(SubSeq(layers, 1, i), i, pruneNum - 1)
  ELSE pruneLayers(SubSeq(layers, 1, i) \o SubSeq(layers, i + 2, Len(layers)), i, pruneNum - 1)

\* dagAdd taking the digest of the compressed layer for the uncompressed one
dagAddCompressed(layersNew, confOCINew) ==
  [i \in 1..Len(layersNew) |->
     [mod |-> unchanged, ucDigest |-> layersNew[i].Digest,
      desc |-> layersNew[i], newDesc |-> ZeroLayerDesc]]

\* the nodes inserted for the new base's layers
dagAdd(layersNew, confOCINew) ==
  [i \in 1..Len(layersNew) |->
     [mod |-> unchanged, ucDigest |-> confOCINew.RootFS.DiffIDs[i],
      desc |-> layersNew[i], newDesc |-> ZeroLayerDesc]]

\* rebaseSplice cutting the history by the old base's layer count
rebaseSpliceHistoryByLayers(dm, layersOld, confOCIOld, layersNew, confOCINew) ==
  LET pruned == pruneLayers(dm.layers, 0, Len(layersOld))
      layers == dm.m.Layers
      confOCI == dm.config[1].oc
      oc == [confOCI EXCEPT
               !.History = confOCINew.History
                           \o SubSeq(confOCI.History, Len(layersOld) + 1, Len(confOCI.History)),
               !.RootFS.DiffIDs = confOCINew.RootFS.DiffIDs
                           \o SubSeq(confOCI.RootFS.DiffIDs, Len(confOCIOld.RootFS.DiffIDs) + 1,
                                     Len(confOCI.RootFS.DiffIDs))]
  IN IF pruned.panic THEN [err |-> PanicIndex, dm |-> [dm EXCEPT !.layers = pruned.layers]]
     ELSE [err |-> "",
           dm |-> [dm EXCEPT
                     !.layers = dagAdd(layersNew, confOCINew) \o pruned.layers,
                     !.m.Layers = layersNew \o SubSeq(layers, Len(layersOld) + 1, Len(layers)),
                     !.config = Some([oc |-> oc, modified |-> TRUE,
                                      newDesc |-> ConfigDescriptor(oc)]),
                     !.mod = replaced]]

\* delete the old layers and config entries, insert the new ones, mark as modified
rebaseSplice(dm, layersOld, confOCIOld, layersNew, confOCINew) ==
  LET pruned == pruneLayers(dm.layers, 0, Len(layersOld))
      layers == dm.m.Layers
      confOCI == dm.config[1].oc
      oc == [confOCI EXCEPT
               !.History = confOCINew.History
                           \o SubSeq(confOCI.History, Len(confOCIOld.History) + 1, Len(confOCI.History)),
               !.RootFS.DiffIDs = confOCINew.RootFS.DiffIDs
                           \o SubSeq(confOCI.RootFS.DiffIDs, Len(confOCIOld.RootFS.DiffIDs) + 1,
                                     Len(confOCI.RootFS.DiffIDs))]
  IN IF pruned.panic THEN [err |-> PanicIndex, dm |-> [dm EXCEPT !.layers = pruned.layers]]
     ELSE [err |-> "",
           dm |-> [dm EXCEPT
                     !.layers = dagAdd(layersNew, confOCINew) \o pruned.layers,
                     !.m.Layers = layersNew \o SubSeq(layers, Len(layersOld) + 1, Len(layers)),
                     !.config = Some([oc |-> oc, modified |-> TRUE,
                                      newDesc |-> ConfigDescriptor(oc)]),
                     !.mod = replaced]]

\* number of new-base blobs copied before the copy loop ends or fails
copyCount(layersNew, fail) ==
  IF fail > FailCopy /\ fail - FailCopy <= Len(layersNew) THEN fail - FailCopy - 1
  ELSE Len(layersNew)

\* rebaseImages copying the blobs before it validates
rebaseImagesCopyFirst(dm, mbOldCache, mbNewCache, fetched, mbOld, confOCIOld, mbNew, confOCINew, fail) ==
  LET verr == rebaseValidate(dm.m.Layers, dm.config[1].oc, mbOld.Layers, confOCIOld,
                             mbNew.Layers, confOCINew)
      n == copyCount(mbNew.Layers, fail)
      copied == SubSeq(mbNew.Layers, 1, n)
      sp == rebaseSplice(dm, mbOld.Layers, confOCIOld, mbNew.Layers, confOCINew)
  IN IF n < Len(mbNew.Layers)
     THEN rebaseReturn("error", dm, mbOldCache, mbNewCache, copied, fetched)
     ELSE IF verr # "" THEN rebaseReturn(verr, dm, mbOldCache, mbNewCache, copied, fetched)
     ELSE rebaseReturn(sp.err, sp.dm, mbOldCache, mbNewCache, copied, fetched)

\* the step from the loaded images on: validate, copy blobs, splice
rebaseImages(dm, mbOldCache, mbNewCache, fetched, mbOld, confOCIOld, mbNew, confOCINew, fail) ==
  LET verr == rebaseValidate(dm.m.Layers, dm.config[1].oc, mbOld.Layers, confOCIOld,
                             mbNew.Layers, confOCINew)
      n == copyCount(mbNew.Layers, fail)
      copied == SubSeq(mbNew.Layers, 1, n)
      sp == rebaseSplice(dm, mbOld.Layers, confOCIOld, mbNew.Layers, confOCINew)
  IN IF verr # "" THEN rebaseReturn(verr, dm, mbOldCache, mbNewCache, <<>>, fetched)
     ELSE IF n < Len(mbNew.Layers)
          THEN rebaseReturn("error", dm, mbOldCache, mbNewCache, copied, fetched)
     ELSE rebaseReturn(sp.err, sp.dm, mbOldCache, mbNewCache, copied, fetched)

\* sameBase comparing the two fetched manifest objects, never identical
sameBaseObject(mbOld, mbNew) == FALSE

\* if old and new are the same, skip rebase
sameBase(mbOld, mbNew) == Equal(ManifestDescriptor(mbOld), ManifestDescriptor(mbNew))

\* the step from the cached base manifests on: skip when old and new are the
\* same, pick the platform's manifest of an index, load layers and configs
rebaseResolve(dm, rOld, rNew, mbOldCache, mbNewCache, fetched, fail) ==
  LET p == dm.config[1].oc.Platform
      dOld == GetPlatformDesc(mbOldCache[1], p)
      gOld == IF mbOldCache[1].IsList
              THEN IF dOld.err # "" THEN [err |-> dOld.err, m |-> Nil]
                   ELSE ManifestGet(RefDigest(rOld.Name, dOld.d.Digest), fail = FailGetOldChild)
              ELSE [err |-> "", m |-> mbOldCache]
      dNew == GetPlatformDesc(mbNewCache[1], p)
      gNew == IF mbNewCache[1].IsList
              THEN IF dNew.err # "" THEN [err |-> dNew.err, m |-> Nil]
                   ELSE ManifestGet(RefDigest(rNew.Name, dNew.d.Digest), fail = FailGetNewChild)
              ELSE [err |-> "", m |-> mbNewCache]
      fOld == IF mbOldCache[1].IsList /\ dOld.err = ""
              THEN Append(fetched, Fetch(RefDigest(rOld.Name, dOld.d.Digest), "old", FALSE, gOld.err))
              ELSE fetched
      fNew == IF mbNewCache[1].IsList /\ dNew.err = ""
              THEN Append(fOld, Fetch(RefDigest(rNew.Name, dNew.d.Digest), "new", FALSE, gNew.err))
              ELSE fOld
      cOld == BlobGetOCIConfig(gOld.m[1].Config, fail = FailConfigOld)
      cNew == BlobGetOCIConfig(gNew.m[1].Config, fail = FailConfigNew)
  IN IF sameBase(mbOldCache[1], mbNewCache[1])
     THEN rebaseReturn("", dm, mbOldCache, mbNewCache, <<>>, fetched)
     ELSE IF gOld.err # "" THEN rebaseReturn(gOld.err, dm, mbOldCache, mbNewCache, <<>>, fOld)
     ELSE IF gNew.err # "" THEN rebaseReturn(gNew.err, dm, mbOldCache, mbNewCache, <<>>, fNew)
     ELSE IF gOld.m[1].IsList THEN rebaseReturn("error", dm, mbOldCache, mbNewCache, <<>>, fNew)
     ELSE IF cOld.err # "" THEN rebaseReturn(cOld.err, dm, mbOldCache, mbNewCache, <<>>, fNew)
     ELSE IF gNew.m[1].IsList THEN rebaseReturn("error", dm, mbOldCache, mbNewCache, <<>>, fNew)
     ELSE IF cNew.err # "" THEN rebaseReturn(cNew.err, dm, mbOldCache, mbNewCache, <<>>, fNew)
     ELSE rebaseImages(dm, mbOldCache, mbNewCache, fNew, gOld.m[1], cOld.oc[1],
                       gNew.m[1], cNew.oc[1], fail)

\* one invocation of the step a rebase option registers, on manifest node dm
rebaseStep(dm, rOld, rNew, mbOldCache, mbNewCache, fail) ==
  LET gOld == IF mbOldCache = Nil THEN ManifestGet(rOld, fail = FailGetOld)
              ELSE [err |-> "", m |-> mbOldCache]
      fOld == IF mbOldCache = Nil THEN <<Fetch(rOld, "old", TRUE, gOld.err)>> ELSE <<>>
      gNew == IF mbNewCache = Nil THEN ManifestGet(rNew, fail = FailGetNew)
              ELSE [err |-> "", m |-> mbNewCache]
      fNew == IF mbNewCache = Nil THEN Append(fOld, Fetch(rNew, "new", TRUE, gNew.err)) ELSE fOld
  IN IF dm.m.IsList \/ dm.mod = deleted
     THEN rebaseReturn("", dm, mbOldCache, mbNewCache, <<>>, <<>>)
     ELSE IF gOld.err # "" THEN rebaseReturn(gOld.err, dm, mbOldCache, mbNewCache, <<>>, fOld)
     ELSE IF gNew.err # "" THEN rebaseReturn(gNew.err, dm, gOld.m, mbNewCache, <<>>, fNew)
     ELSE rebaseResolve(dm, rOld, rNew, gOld.m, gNew.m, fNew, fail)

\* ---------------------------------------------------------------------------
\* Annotation, label and URL steps
\* ---------------------------------------------------------------------------
MapSet(mp, k, v) == [x \in DOMAIN mp \cup {k} |-> IF x = k THEN v ELSE mp[x]]

MapDelete(mp, k) == [x \in DOMAIN mp \ {k} |-> mp[x]]

\* the annotation map of a manifest, an empty map when it has none
annotations(m) == IF m.Annotations = Nil THEN <<>> ELSE m.Annotations[1]

\* SetOrig, then GetDescriptor, then mark the node replaced
setOrig(dm, om) == [dm EXCEPT !.m = om, !.newDesc = ManifestDescriptor(om), !.mod = replaced]

annoBaseDig == "org.opencontainers.image.base.digest"

annoBaseName == "org.opencontainers.image.base.name"

\* digest.String of a manifest digest and digest.Parse of that string
DigestString(dig) ==
  "sha256:" \o (CHOOSE t \in DOMAIN Registry : ManifestDescriptor(Registry[t]).Digest = dig)

DigestParse(str) ==
  LET hits == {t \in DOMAIN Registry : DigestString(ManifestDescriptor(Registry[t]).Digest) = str}
  IN IF hits = {} THEN Nil ELSE ManifestDescriptor(Registry[CHOOSE t \in hits : TRUE]).Digest

\* annotationStep counting the delete of a key that is not there as a change
annotationStepDeleteAlways(dm, name, value) ==
  LET ann == annotations(dm.m)
      cur == MapGet(ann, name)
      ann2 == IF value = "" THEN MapDelete(ann, name)
              ELSE IF value # cur THEN MapSet(ann, name, value)
              ELSE ann
      changed == value = "" \/ value # cur
  IN IF dm.mod = deleted \/ ~dm.top THEN dm
     ELSE IF changed THEN setOrig(dm, [dm.m EXCEPT !.Annotations = Some(ann2)])
     ELSE dm

\* the step WithAnnotation(name, value) registers
annotationStep(dm, name, value) ==
  LET ann == annotations(dm.m)
      ok == name \in DOMAIN ann
      cur == MapGet(ann, name)
      ann2 == IF value = "" /\ ok THEN MapDelete(ann, name)
              ELSE IF value # "" /\ value # cur THEN MapSet(ann, name, value)
              ELSE ann
      changed == (value = "" /\ ok) \/ (value # "" /\ value # cur)
  IN IF dm.mod = deleted \/ ~dm.top THEN dm
     ELSE IF changed THEN setOrig(dm, [dm.m EXCEPT !.Annotations = Some(ann2)])
     ELSE dm

\* annotationOCIBaseStep annotating every manifest that is not deleted
annotationOCIBaseStepAllNodes(dm, rBase, dBase) ==
  LET ann == annotations(dm.m)
      ann1 == MapSet(ann, annoBaseName, rBase.Name)
      ann2 == MapSet(ann1, annoBaseDig, DigestString(dBase))
  IN IF dm.mod = deleted THEN dm
     ELSE IF ann2 # ann THEN setOrig(dm, [dm.m EXCEPT !.Annotations = Some(ann2)])
     ELSE dm

\* the step WithAnnotationOCIBase(rBase, dBase) registers
annotationOCIBaseStep(dm, rBase, dBase) ==
  LET ann == annotations(dm.m)
      ann1 == IF MapGet(ann, annoBaseName) # rBase.Name
              THEN MapSet(ann, annoBaseName, rBase.Name) ELSE ann
      ann2 == IF MapGet(ann1, annoBaseDig) # DigestString(dBase)
              THEN MapSet(ann1, annoBaseDig, DigestString(dBase)) ELSE ann1
      changed == MapGet(ann, annoBaseName) # rBase.Name
                 \/ MapGet(ann1, annoBaseDig) # DigestString(dBase)
  IN IF dm.mod = deleted \/ ~dm.top THEN dm
     ELSE IF changed THEN setOrig(dm, [dm.m EXCEPT !.Annotations = Some(ann2)])
     ELSE dm

\* labelToAnnotationStep writing the manifest back whether or not a label differed
labelToAnnotationStepAlways(dm) ==
  LET ann == annotations(dm.m)
      labels == dm.config[1].oc.Labels[1]
      ann2 == [x \in DOMAIN ann \cup DOMAIN labels |->
                 IF x \in DOMAIN labels THEN labels[x] ELSE ann[x]]
  IN IF dm.mod = deleted THEN dm
     ELSE IF dm.m.IsList THEN dm
     ELSE IF dm.config = Nil THEN dm
     ELSE IF dm.config[1].oc.Labels = Nil THEN dm
     ELSE setOrig(dm, [dm.m EXCEPT !.Annotations = Some(ann2)])

\* the step WithLabelToAnnotation() registers
labelToAnnotationStep(dm) ==
  LET ann == annotations(dm.m)
      labels == dm.config[1].oc.Labels[1]
      differ == {name \in DOMAIN labels : name \notin DOMAIN ann \/ ann[name] # labels[name]}
      ann2 == [x \in DOMAIN ann \cup DOMAIN labels |->
                 IF x \in DOMAIN labels THEN labels[x] ELSE ann[x]]
  IN IF dm.mod = deleted THEN dm
     ELSE IF dm.m.IsList THEN dm
     ELSE IF dm.config = Nil THEN dm
     ELSE IF dm.config[1].oc.Labels = Nil THEN dm
     ELSE IF differ = {} THEN dm
     ELSE setOrig(dm, [dm.m EXCEPT !.Annotations = Some(ann2)])

\* stripMediaType turning every OCI foreign layer into a gzip layer
stripMediaTypeGzip(mt) ==
  CASE mt = MediaTypeDocker2ForeignLayer -> MediaTypeDocker2LayerGzip
    [] mt = MediaTypeOCI1ForeignLayer -> MediaTypeOCI1LayerGzip
    [] mt = MediaTypeOCI1ForeignLayerGzip -> MediaTypeOCI1LayerGzip
    [] mt = MediaTypeOCI1ForeignLayerZstd -> MediaTypeOCI1LayerGzip
    [] OTHER -> mt

\* the media type a layer gets when its external URLs are removed
stripMediaType(mt) ==
  CASE mt = MediaTypeDocker2ForeignLayer -> MediaTypeDocker2LayerGzip
    [] mt = MediaTypeOCI1ForeignLayer -> MediaTypeOCI1Layer
    [] mt = MediaTypeOCI1ForeignLayerGzip -> MediaTypeOCI1LayerGzip
    [] mt = MediaTypeOCI1ForeignLayerZstd -> MediaTypeOCI1LayerZstd
    [] OTHER -> mt

lenURLs(d) == IF d.URLs = Nil THEN 0 ELSE Len(d.URLs[1])

\* strip layers from image
stripLayer(d) ==
  IF lenURLs(d) > 0
  THEN [d EXCEPT !.URLs = Some(<<>>), !.MediaType = stripMediaType(d.MediaType)]
  ELSE d

\* also strip from dag so other steps don't skip the external layer
stripDagLayer(dl) ==
  LET nd == IF dl.newDesc.Digest = "" /\ lenURLs(dl.desc) > 0 THEN dl.desc ELSE dl.newDesc
  IN IF dl.mod = deleted THEN dl
     ELSE IF lenURLs(nd) > 0 THEN [dl EXCEPT !.newDesc = [nd EXCEPT !.URLs = Some(<<>>)]]
     ELSE [dl EXCEPT !.newDesc = nd]

\* externalURLsRmStep writing the manifest back whether or not a layer had URLs
externalURLsRmStepAlways(dm) ==
  LET om == [dm.m EXCEPT !.Layers = [i \in 1..Len(dm.m.Layers) |-> stripLayer(dm.m.Layers[i])]]
      dls == [i \in 1..Len(dm.layers) |-> stripDagLayer(dm.layers[i])]
  IN IF dm.mod = deleted THEN dm
     ELSE IF dm.m.IsList THEN dm
     ELSE setOrig([dm EXCEPT !.layers = dls], om)

\* the step WithExternalURLsRm() registers
externalURLsRmStep(dm) ==
  LET changed == \E i \in 1..Len(dm.m.Layers) : lenURLs(dm.m.Layers[i]) > 0
      om == [dm.m EXCEPT !.Layers = [i \in 1..Len(dm.m.Layers) |-> stripLayer(dm.m.Layers[i])]]
      dls == [i \in 1..Len(dm.layers) |-> stripDagLayer(dm.layers[i])]
  IN IF dm.mod = deleted THEN dm
     ELSE IF dm.m.IsList THEN dm
     ELSE IF ~changed THEN [dm EXCEPT !.layers = dls]
     ELSE setOrig([dm EXCEPT !.layers = dls], om)

\* ---------------------------------------------------------------------------
\* Images a pipeline starts from
\* ---------------------------------------------------------------------------
\* the DAG of one image manifest: a config node and one layer node per layer
dagGet(m, oc, top) ==
  dagManifest(m, top, Some(dagOCIConfig(oc)),
              [i \in 1..Len(m.Layers) |->
                 dagLayer(m.Layers[i],
                          IF i <= Len(oc.RootFS.DiffIDs) THEN oc.RootFS.DiffIDs[i] ELSE "")])

\* the DAG node of an index
dagGetIndex(m, top) == dagManifest(m, top, Nil, <<>>)

\* what one build step adds to an image: a layer with its history entry and
\* diff-ID ("x", "y"), or a history entry alone ("run")
ExtraKinds == {"x", "y", "run"}

RECURSIVE SeqsUpTo(_, _)
SeqsUpTo(S, n) ==
  IF n = 0 THEN {<<>>}
  ELSE LET shorter == SeqsUpTo(S, n - 1)
       IN shorter \cup {Append(q, e) : q \in {r \in shorter : Len(r) = n - 1}, e \in S}

Extras == SeqsUpTo(ExtraKinds, MaxExtra)

RECURSIVE extraLayers(_)
extraLayers(ex) ==
  IF ex = <<>> THEN <<>>
  ELSE IF ex[1] = "run" THEN extraLayers(Tail(ex))
  ELSE <<L(ex[1])>> \o extraLayers(Tail(ex))

RECURSIVE extraDiffIDs(_)
extraDiffIDs(ex) ==
  IF ex = <<>> THEN <<>>
  ELSE IF ex[1] = "run" THEN extraDiffIDs(Tail(ex))
  ELSE <<"diff:" \o ex[1]>> \o extraDiffIDs(Tail(ex))

extraHistory(ex) == [i \in 1..Len(ex) |-> IF ex[i] = "run" THEN HE("run") ELSE HL(ex[i])]

\* an image made of the given base parts followed by the extra entries
Derived(layers, history, diffIDs, ex) ==
  LET oc == OCIConfig(LinuxAmd64, history \o extraHistory(ex), diffIDs \o extraDiffIDs(ex), Nil)
  IN [m |-> ImageManifest(MediaTypeOCI1Manifest, Nil, oc, layers \o extraLayers(ex)), oc |-> oc]

\* the layers, history and diff-IDs of a registry image
Parts(img) ==
  [layers |-> img.Layers, history |-> Content(img.Config.Digest).History,
   diffIDs |-> Content(img.Config.Digest).RootFS.DiffIDs]

Extending(b) ==
  {Derived(Parts(b).layers, Parts(b).history, Parts(b).diffIDs, ex) : ex \in Extras}

\* images that extend a base of the registry
ExtendingImages == UNION {Extending(b) : b \in {ImgB1, ImgB1Docker, ImgB3, ImgNoCreated}}

\* a layer descriptor changed in a single field
MutateLayer(d) ==
  {[d EXCEPT !.Digest = "z"], [d EXCEPT !.Size = 11], [d EXCEPT !.MediaType = MediaTypeOCI1Layer]}

\* a history entry changed in a single field
MutateHistory(h) ==
  {[h EXCEPT !.Author = "other"], [h EXCEPT !.Comment = "edited"],
   [h EXCEPT !.Created = Some(2)], [h EXCEPT !.Created = Nil],
   [h EXCEPT !.CreatedBy = "other"], [h EXCEPT !.EmptyLayer = ~@]}

\* images that differ from base v1 at one position, or are shorter than it
MismatchingImages ==
  LET b == Parts(ImgB1)
  IN UNION {{Derived([b.layers EXCEPT ![i] = d], b.history, b.diffIDs, <<"x">>) :
               d \in MutateLayer(b.layers[i])} : i \in 1..Len(b.layers)}
     \cup UNION {{Derived(b.layers, [b.history EXCEPT ![i] = h], b.diffIDs, <<"x">>) :
               h \in MutateHistory(b.history[i])} : i \in 1..Len(b.history)}
     \cup {Derived(b.layers, b.history, [b.diffIDs EXCEPT ![i] = "diff:z"], <<"x">>) :
               i \in 1..Len(b.diffIDs)}
     \cup {Derived(<<L("a")>>, b.history, b.diffIDs, <<>>),
           Derived(b.layers, <<HL("a"), HE("env")>>, b.diffIDs, <<>>),
           Derived(b.layers, <<HL("a")>>, b.diffIDs, <<>>),
           Derived(b.layers, b.history, <<"diff:a">>, <<>>)}

\* a layer node an earlier step marked added: not yet part of the manifest
addedLayer == [dagLayer(L("new"), "diff:new") EXCEPT !.mod = added]

InsertAt(q, i, e) == SubSeq(q, 1, i) \o <<e>> \o SubSeq(q, i + 1, Len(q))

\* the layer-node sequences that up to n added nodes turn a sequence into
RECURSIVE WithAddedLayers(_, _)
WithAddedLayers(layers, n) ==
  IF n = 0 THEN {layers}
  ELSE LET fewer == WithAddedLayers(layers, n - 1)
       IN fewer \cup UNION {{InsertAt(q, i, addedLayer) : i \in 0..Len(q)} : q \in fewer}

\* DAGs of a single image for the rebase specification
RebaseDags ==
  {<<dagGet(img.m, img.oc, TRUE)>> : img \in ExtendingImages \cup MismatchingImages}
  \cup UNION {{<<[dagGet(img.m, img.oc, TRUE) EXCEPT !.layers = dls]>> :
                 dls \in WithAddedLayers(dagGet(img.m, img.oc, TRUE).layers, MaxAdded)} :
              img \in Extending(ImgB1)}

\* DAGs for the full specification: an image built on base v1 with labels, an
\* image annotated with its base that ends in a foreign layer, an image built
\* on another base, and an index of an amd64 and an arm64 image
baseAnnotations ==
  (annoBaseName :> "b1") @@ (annoBaseDig :> DigestString(ManifestDescriptor(ImgB1).Digest))

ImgV1 ==
  LET b == Parts(ImgB1)
      oc == OCIConfig(LinuxAmd64, b.history \o <<HL("x")>>, b.diffIDs \o <<"diff:x">>,
                      Some([team |-> "core"]))
  IN [m |-> ImageManifest(MediaTypeOCI1Manifest, Nil, oc, b.layers \o <<L("x")>>), oc |-> oc]

ImgV2 ==
  LET b == Parts(ImgB1)
      oc == OCIConfig(LinuxAmd64, b.history \o <<HL("f")>>, b.diffIDs \o <<"diff:f">>, Nil)
  IN [m |-> ImageManifest(MediaTypeOCI1Manifest, Some(baseAnnotations), oc,
                          b.layers \o <<LForeign("f")>>), oc |-> oc]

ImgV3 ==
  LET b == Parts(ImgB3)
      oc == OCIConfig(LinuxAmd64, b.history \o <<HL("y")>>, b.diffIDs \o <<"diff:y">>,
                      Some([team |-> "core"]))
  IN [m |-> ImageManifest(MediaTypeOCI1Manifest, Some([team |-> "core"]), oc,
                          b.layers \o <<L("y")>>), oc |-> oc]

ImgV1Arm ==
  LET b == Parts(ImgB1)
      oc == OCIConfig(LinuxArm64, b.history \o <<HL("y")>>, b.diffIDs \o <<"diff:y">>, Nil)
  IN [m |-> ImageManifest(MediaTypeOCI1Manifest, Nil, oc, b.layers \o <<L("y")>>), oc |-> oc]

IdxV1 ==
  IndexManifest(MediaTypeOCI1ManifestList, Nil,
                <<ChildDesc(ImgV1.m, LinuxAmd64), ChildDesc(ImgV1Arm.m, LinuxArm64)>>)

\* a layer of any media type with a list of external URLs
LURLs(mt, x, urls) == [Descriptor(mt, x, 10) EXCEPT !.URLs = Some(urls)]

\* an image on the first layer of base v1 whose further layers are held
\* outside the registry under each foreign media type, under a media type
\* that is not foreign, and one with an empty URL list
ImgV4 ==
  LET b == Parts(ImgB3)
      oc == OCIConfig(LinuxAmd64,
                      b.history \o <<HL("g"), HL("h"), HL("f"), HL("i"), HL("j"), HL("q")>>,
                      b.diffIDs \o <<"diff:g", "diff:h", "diff:f", "diff:i", "diff:j", "diff:q">>,
                      Nil)
  IN [m |-> ImageManifest(MediaTypeOCI1Manifest, Nil, oc,
                          b.layers
                          \o <<LURLs(MediaTypeDocker2ForeignLayer, "g", <<"https://example.com/g">>),
                               LURLs(MediaTypeOCI1ForeignLayer, "h", <<"https://example.com/h">>),
                               LForeign("f"),
                               LURLs(MediaTypeOCI1ForeignLayerZstd, "i",
                                     <<"https://example.com/i", "https://mirror.example.com/i">>),
                               LURLs(MediaTypeOCI1LayerGzip, "j", <<"https://example.com/j">>),
                               LURLs(MediaTypeOCI1LayerGzip, "q", <<>>)>>),
      oc |-> oc]

\* the DAG of ImgV4 after an earlier step deleted the node of layer "h"
DagV4 ==
  LET dm == dagGet(ImgV4.m, ImgV4.oc, TRUE)
  IN [dm EXCEPT !.layers[3].mod = deleted]

\* images annotated with the name of their base alone, with its digest alone,
\* and with a digest that is none
ImgV5 ==
  LET b == Parts(ImgB1)
      oc == OCIConfig(LinuxAmd64, b.history, b.diffIDs, Nil)
  IN [m |-> ImageManifest(MediaTypeOCI1Manifest, Some((annoBaseName :> "b1")), oc, b.layers),
      oc |-> oc]

ImgV6 ==
  LET b == Parts(ImgB1)
      oc == OCIConfig(LinuxAmd64, b.history, b.diffIDs, Nil)
  IN [m |-> ImageManifest(MediaTypeOCI1Manifest,
                          Some((annoBaseDig :> DigestString(ManifestDescriptor(ImgB1).Digest))),
                          oc, b.layers),
      oc |-> oc]

ImgV7 ==
  LET b == Parts(ImgB1)
      oc == OCIConfig(LinuxAmd64, b.history, b.diffIDs, Nil)
  IN [m |-> ImageManifest(MediaTypeOCI1Manifest,
                          Some((annoBaseName :> "b1") @@ (annoBaseDig :> "latest")),
                          oc, b.layers),
      oc |-> oc]

\* an index of the image with a foreign layer and an arm64 image
IdxV2 ==
  IndexManifest(MediaTypeOCI1ManifestList, Nil,
                <<ChildDesc(ImgV2.m, LinuxAmd64), ChildDesc(ImgV1Arm.m, LinuxArm64)>>)

\* nodes in the order the manifests are walked: children before their index;
\* in the last DAG an earlier step deleted the first child
Dags ==
  {<<dagGet(ImgV1.m, ImgV1.oc, TRUE)>>,
   <<dagGet(ImgV2.m, ImgV2.oc, TRUE)>>,
   <<dagGet(ImgV3.m, ImgV3.oc, TRUE)>>,
   <<DagV4>>,
   <<dagGet(ImgV5.m, ImgV5.oc, TRUE)>>,
   <<dagGet(ImgV6.m, ImgV6.oc, TRUE)>>,
   <<dagGet(ImgV7.m, ImgV7.oc, TRUE)>>,
   <<dagGet(ImgV1.m, ImgV1.oc, FALSE), dagGet(ImgV1Arm.m, ImgV1Arm.oc, FALSE),
     dagGetIndex(IdxV1, TRUE)>>,
   <<[dagGet(ImgV2.m, ImgV2.oc, FALSE) EXCEPT !.mod = deleted],
     dagGet(ImgV1Arm.m, ImgV1Arm.oc, FALSE), dagGetIndex(IdxV2, TRUE)>>}

\* ---------------------------------------------------------------------------
\* State
\* ---------------------------------------------------------------------------
VARIABLES
  dag,            \* the manifest nodes, in walk order
  stepsManifest,  \* dc.stepsManifest: the registered steps with their captured variables
  pc,             \* "opts", "run", "put", "done"; "failed": an option or a step returned
                  \* an error; "pushfailed": a push did
  node,           \* index of the node the pipeline is at
  step,           \* index of the step the pipeline is at
  err,            \* the error the run returned, "" for none
  target,         \* the writes made to the target repository, in order
  call,           \* the last step invocation: its inputs and what it returned
  ran,            \* the step invocations so far, in order: node, step, error returned,
                  \* manifests fetched, whether the manifest's content changed
  repo,           \* what the target repository held at the start: digests of layer
                  \* blobs, of config blobs and of manifests
  artifact,       \* runArtifactPut: artifactOpts, the manifest m being built and the
                  \* number of files handled
  query           \* a call of package types: the function, its arguments, its result

vars == <<dag, stepsManifest, pc, node, step, err, target, call, ran, repo, artifact, query>>

\* a registered step: its kind, its arguments and the caches a rebase keeps
Step(kind, name, value, rOld, rNew, dBase) ==
  [kind |-> kind, name |-> name, value |-> value, rOld |-> rOld, rNew |-> rNew,
   dBase |-> dBase, mbOldCache |-> Nil, mbNewCache |-> Nil]

NoCall ==
  [kind |-> "none", node |-> 0, pre |-> Nil, post |-> Nil, st |-> Nil, fail |-> 0,
   err |-> "", copied |-> <<>>, fetched |-> <<>>]

\* no function of package types called yet
NoQuery == [fn |-> "none", args |-> <<>>, ret |-> Nil]

\* injection points of a registry failure in one step invocation; 0 is none
FailPoints == 0..(FailCopy + 3)

\* the root manifest, the node the options are loaded against
root == dag[Len(dag)]

\* appendStep putting the new step in front of the registered ones
prependStep(st) ==
  /\ pc = "opts"
  /\ stepsManifest' = <<st>> \o stepsManifest
  /\ UNCHANGED <<dag, pc, node, step, err, target, call, ran, repo, artifact, query>>

\* dc.stepsManifest = append(dc.stepsManifest, ...)
appendStep(st) ==
  /\ pc = "opts"
  /\ stepsManifest' = Append(stepsManifest, st)
  /\ UNCHANGED <<dag, pc, node, step, err, target, call, ran, repo, artifact, query>>

\* ---------------------------------------------------------------------------
\* Options: each registers one step
\* ---------------------------------------------------------------------------
AnnotationNames == {"k"}

AnnotationValues == {"", "v", "w"}

WithAnnotation ==
  /\ Len(stepsManifest) < MaxSteps
  /\ \E name \in AnnotationNames, value \in AnnotationValues :
       appendStep(Step("annotation", name, value, Nil, Nil, Nil))

\* bases a caller names in WithAnnotationOCIBase
AnnotationBases == {"b1", "b2"}

WithAnnotationOCIBase ==
  /\ Len(stepsManifest) < MaxSteps
  /\ \E b \in AnnotationBases :
       appendStep(Step("annotationOCIBase", "", "", Ref(b), Nil, ManifestDescriptor(Registry[b]).Digest))

WithLabelToAnnotation ==
  /\ Len(stepsManifest) < MaxSteps
  /\ appendStep(Step("labelToAnnotation", "", "", Nil, Nil, Nil))

WithExternalURLsRm ==
  /\ Len(stepsManifest) < MaxSteps
  /\ appendStep(Step("externalURLsRm", "", "", Nil, Nil, Nil))

rebaseAddStep(rOld, rNew) == appendStep(Step("rebase", "", "", rOld, rNew, Nil))

\* old and new base references of the full specification
RebaseRefs ==
  {<<Ref("b1"), Ref("b2")>>, <<Ref("b1"), Ref("b1")>>, <<Ref("b1"), Ref("idx2")>>,
   <<Ref("b2"), Ref("b1")>>, <<Ref("b1"), Ref("badrootfs")>>, <<Ref("gone"), Ref("b2")>>}

WithRebaseRefs ==
  /\ Len(stepsManifest) < MaxSteps
  /\ \E rr \in RebaseRefs : rebaseAddStep(rr[1], rr[2])

\* the same option as the only one of a run, with any pair of references
WithRebaseRefsAny ==
  /\ stepsManifest = <<>>
  /\ \E rOld \in Refs, rNew \in Refs : rebaseAddStep(rOld, rNew)

\* the option fails, and with it the run, before any step is registered
optionError(e) ==
  /\ pc = "opts"
  /\ pc' = "failed"
  /\ err' = e
  /\ UNCHANGED <<dag, stepsManifest, node, step, target, call, ran, repo, artifact, query>>

\* WithRebase looking for the base name alone before it parses
WithRebaseNameOnly ==
  LET annot == annotations(root.m)
      dig == DigestParse(MapGet(annot, annoBaseDig))
  IN /\ pc = "opts"
     /\ Len(stepsManifest) < MaxSteps
     /\ IF annoBaseName \notin DOMAIN annot THEN optionError("ErrMissingAnnotation")
        ELSE IF dig = Nil THEN optionError("error")
        ELSE rebaseAddStep(RefDigest(annot[annoBaseName], dig), Ref(annot[annoBaseName]))

WithRebase ==
  LET annot == annotations(root.m)
      dig == DigestParse(annot[annoBaseDig])
  IN /\ pc = "opts"
     /\ Len(stepsManifest) < MaxSteps
     /\ IF annoBaseName \notin DOMAIN annot THEN optionError("ErrMissingAnnotation")
        ELSE IF annoBaseDig \notin DOMAIN annot THEN optionError("ErrMissingAnnotation")
        ELSE IF dig = Nil THEN optionError("error")
        ELSE rebaseAddStep(RefDigest(annot[annoBaseName], dig), Ref(annot[annoBaseName]))

\* ---------------------------------------------------------------------------
\* Running the steps: every step, in order, on each manifest node in turn
\* ---------------------------------------------------------------------------
stepReturn(dm, st) == [err |-> "", dm |-> dm, st |-> st, copied |-> <<>>, fetched |-> <<>>]

\* rebaseStepReturn with base manifests that are local to one invocation
rebaseStepReturnLocal(rb, st) ==
  [err |-> rb.err, dm |-> rb.dm, st |-> st, copied |-> rb.copied, fetched |-> rb.fetched]

\* what a rebase step returns, and the base manifests its closure keeps
rebaseStepReturn(rb, st) ==
  [err |-> rb.err, dm |-> rb.dm,
   st |-> [st EXCEPT !.mbOldCache = rb.mbOldCache, !.mbNewCache = rb.mbNewCache],
   copied |-> rb.copied, fetched |-> rb.fetched]

\* one invocation of a registered step on a node
invoke(st, dm, fail) ==
  CASE st.kind = "annotation" -> stepReturn(annotationStep(dm, st.name, st.value), st)
    [] st.kind = "annotationOCIBase" -> stepReturn(annotationOCIBaseStep(dm, st.rOld, st.dBase), st)
    [] st.kind = "labelToAnnotation" -> stepReturn(labelToAnnotationStep(dm), st)
    [] st.kind = "externalURLsRm" -> stepReturn(externalURLsRmStep(dm), st)
    [] st.kind = "rebase" ->
         rebaseStepReturn(rebaseStep(dm, st.rOld, st.rNew, st.mbOldCache, st.mbNewCache, fail), st)

blobCopies(copied) ==
  [i \in 1..Len(copied) |-> [op |-> "BlobCopy", kind |-> "layer", d |-> copied[i]]]

\* the options are loaded: start on the first node, or go straight to the push
Run ==
  /\ pc = "opts"
  /\ pc' = IF Len(stepsManifest) > 0 THEN "run" ELSE "put"
  /\ node' = 1
  /\ step' = 1
  /\ UNCHANGED <<dag, stepsManifest, err, target, call, ran, repo, artifact, query>>

RunStep ==
  /\ pc = "run"
  /\ \E fail \in FailPoints : \E ret \in {invoke(stepsManifest[step], dag[node], fail)} :
       LET st == stepsManifest[step]
       IN /\ (fail # 0 => ret # invoke(st, dag[node], 0))
          /\ dag' = [dag EXCEPT ![node] = ret.dm]
          /\ stepsManifest' = [stepsManifest EXCEPT ![step] = ret.st]
          /\ target' = target \o blobCopies(ret.copied)
          /\ call' = [kind |-> st.kind, node |-> node, pre |-> dag[node], post |-> ret.dm,
                      st |-> st, fail |-> fail, err |-> ret.err, copied |-> ret.copied,
                      fetched |-> ret.fetched]
          /\ ran' = Append(ran, [node |-> node, step |-> step, err |-> ret.err,
                                  fetched |-> ret.fetched,
                                  changed |-> ManifestDescriptor(ret.dm.m)
                                                # ManifestDescriptor(dag[node].m)])
          /\ err' = ret.err
          /\ IF ret.err # "" THEN pc' = "failed" /\ UNCHANGED <<node, step>>
             ELSE IF step < Len(stepsManifest) THEN step' = step + 1 /\ UNCHANGED <<pc, node>>
             ELSE IF node < Len(dag) THEN node' = node + 1 /\ step' = 1 /\ UNCHANGED pc
             ELSE pc' = "put" /\ node' = 1 /\ step' = 1
          /\ UNCHANGED <<repo, artifact, query>>

\* ---------------------------------------------------------------------------
\* Pushing the changes: configs before manifests, children before the index
\* ---------------------------------------------------------------------------
\* the index entry of child i after the child has been pushed
childEntry(entry, child) ==
  IF child.mod = unchanged \/ child.mod = deleted THEN entry
  ELSE [child.newDesc EXCEPT !.Platform = entry.Platform]

\* the manifest a node serializes: its config reference and child entries updated
putManifest(n) ==
  LET dm == dag[n]
  IN IF dm.m.IsList
     THEN [dm.m EXCEPT !.Manifests = [i \in 1..Len(dm.m.Manifests) |->
                                        childEntry(dm.m.Manifests[i], dag[i])]]
     ELSE IF dm.config # Nil /\ dm.config[1].modified
          THEN [dm.m EXCEPT !.Config = dm.config[1].newDesc]
     ELSE dm.m

\* push node n: the config blob when modified, then the manifest when changed
dagPut ==
  /\ pc = "put"
  /\ \E fail \in 0..2 :
       LET dm == dag[node]
           m == putManifest(node)
           changed == dm.mod # deleted /\ (dm.mod # unchanged \/ m # dm.m)
           putConfig == dm.mod # deleted /\ dm.config # Nil /\ dm.config[1].modified
           configWrites == IF putConfig /\ fail # 1
                           THEN <<[op |-> "BlobPut", kind |-> "config", d |-> dm.config[1].newDesc]>>
                           ELSE <<>>
           manifestWrites == IF changed /\ fail # 2
                             THEN <<[op |-> "ManifestPut", kind |-> "manifest",
                                     d |-> ManifestDescriptor(m)]>>
                             ELSE <<>>
           failed == (putConfig /\ fail = 1) \/ (changed /\ fail = 2)
       IN /\ (fail = 1 => putConfig)
          /\ (fail = 2 => changed)
          /\ target' = target \o configWrites \o (IF putConfig /\ fail = 1 THEN <<>> ELSE manifestWrites)
          /\ dag' = IF changed /\ ~failed
                    THEN [dag EXCEPT ![node] = [dm EXCEPT !.m = m, !.mod = replaced,
                                                          !.newDesc = ManifestDescriptor(m)]]
                    ELSE dag
          /\ IF failed THEN pc' = "pushfailed" /\ err' = "error" /\ UNCHANGED node
             ELSE IF node < Len(dag) THEN node' = node + 1 /\ UNCHANGED <<pc, err>>
             ELSE pc' = "done" /\ UNCHANGED <<node, err>>
          /\ UNCHANGED <<stepsManifest, step, call, ran, repo, artifact, query>>

\* ---------------------------------------------------------------------------
\* regctl artifact put: the config blob, a blob for each file or for stdin,
\* then the manifest
\* ---------------------------------------------------------------------------
ociAnnotTitle == "org.opencontainers.image.title"

defaultMTConfig == "application/vnd.unknown.config.v1+json"

defaultMTLayer == "application/vnd.oci.image.layer.v1.tar"

MaxFiles == 2

\* a file and a directory to pass as artifact files
ArtifactFiles == {"f", "dir"}

ArtifactMTs == {defaultMTLayer, "text/plain"}

\* annotation arguments, each split at its first "="
ArtifactAnnotations == {<<>>, <<<<"k">>, <<"note", "v">>>>}

\* digest of what is read from a file, from the tgz of a directory, from stdin
fileDigest(f) ==
  CASE f = "f" -> "blob:f" [] f = "dir" -> "blob:dir.tgz" [] OTHER -> "blob:stdin"

\* number of bytes read from it
fileSize(f) == CASE f = "f" -> 3 [] f = "dir" -> 7 [] OTHER -> 5

\* configBytes: the config file's content, or an empty json config
configBytes(configFile) == IF configFile # "" THEN "bytes:" \o configFile ELSE "{}"

configSize(configFile) == IF configFile # "" THEN 9 ELSE 2

NoArtifact ==
  [artifactFile |-> <<>>, artifactMT |-> <<>>, configFile |-> "", configMT |-> "",
   annotations |-> <<>>, m |-> Nil, i |-> 0]

\* m := ociv1.Manifest{Layers: []ociv1.Descriptor{}, Annotations: map[string]string{}}
\* with the annotation arguments included
artifactManifest(annots) ==
  [IsList |-> FALSE, MediaType |-> MediaTypeOCI1Manifest,
   Annotations |-> Some([k \in {annots[j][1] : j \in 1..Len(annots)} |->
                           LET j == CHOOSE x \in 1..Len(annots) :
                                      /\ annots[x][1] = k
                                      /\ \A y \in (x + 1)..Len(annots) : annots[y][1] # k
                           IN IF Len(annots[j]) = 1 THEN "" ELSE annots[j][2]]),
   Config |-> ZeroDesc, Layers |-> <<>>, Manifests |-> <<>>]

\* the run ends with an error
artifactReturn(e) ==
  /\ pc' = "artifactFailed"
  /\ err' = e

\* validate inputs, init empty manifest
runArtifactPutInputs ==
  /\ pc = "artifact"
  /\ LET nFile == Len(artifact.artifactFile)
         nMT == Len(artifact.artifactMT)
         mts == IF nFile = 1 /\ nMT = 0 THEN <<defaultMTLayer>> ELSE artifact.artifactMT
         cmt == IF artifact.configMT = "" THEN defaultMTConfig ELSE artifact.configMT
     IN IF ~(nFile = 1 /\ nMT = 0) /\ ~(nFile = 0 /\ nMT = 1) /\ nFile # nMT
        THEN artifactReturn("error") /\ UNCHANGED artifact
        ELSE /\ artifact' = [artifact EXCEPT !.artifactMT = mts, !.configMT = cmt,
                                             !.m = Some(artifactManifest(artifact.annotations))]
             /\ pc' = "artifactConfig"
             /\ UNCHANGED err
  /\ UNCHANGED <<dag, stepsManifest, node, step, target, call, ran, repo, query>>

\* runArtifactPutConfig going on to the files when the push of the config failed
runArtifactPutConfigGoOn ==
  /\ pc = "artifactConfig"
  /\ \E outcome \in {"readError", "putError", "put"} :
       LET desc == Descriptor(artifact.configMT, <<"sha256", configBytes(artifact.configFile)>>,
                              configSize(artifact.configFile))
       IN /\ (outcome = "readError" => artifact.configFile # "")
          /\ IF outcome = "readError"
             THEN artifactReturn("error") /\ UNCHANGED <<target, artifact, query>>
             ELSE /\ target' = IF outcome = "put"
                               THEN Append(target, [op |-> "BlobPut", kind |-> "config", d |-> desc])
                               ELSE target
                  /\ artifact' = [artifact EXCEPT !.m = Some([artifact.m[1] EXCEPT !.Config = desc])]
                  /\ pc' = "artifactFiles"
                  /\ UNCHANGED err
  /\ UNCHANGED <<dag, stepsManifest, node, step, call, ran, repo, query>>

\* read config, push config to registry, save config descriptor to manifest
runArtifactPutConfig ==
  /\ pc = "artifactConfig"
  /\ \E outcome \in {"readError", "putError", "put"} :
       LET desc == Descriptor(artifact.configMT, <<"sha256", configBytes(artifact.configFile)>>,
                              configSize(artifact.configFile))
       IN /\ (outcome = "readError" => artifact.configFile # "")
          /\ IF outcome # "put"
             THEN artifactReturn("error") /\ UNCHANGED <<target, artifact, query>>
             ELSE /\ target' = Append(target, [op |-> "BlobPut", kind |-> "config", d |-> desc])
                  /\ artifact' = [artifact EXCEPT !.m = Some([artifact.m[1] EXCEPT !.Config = desc])]
                  /\ pc' = "artifactFiles"
                  /\ UNCHANGED err
  /\ UNCHANGED <<dag, stepsManifest, node, step, call, ran, repo, query>>

\* the layer blob is in the repository: it was there or has been put
blobExists(dig) ==
  \/ dig \in repo.blobs
  \/ \E j \in 1..Len(target) : target[j].kind = "layer" /\ target[j].d.Digest = dig

\* one round of the loop over the files: digest the file, add the layer to the
\* manifest, put the blob unless BlobHead finds it
runArtifactPutFile ==
  /\ pc = "artifactFiles"
  /\ Len(artifact.artifactFile) > 0
  /\ \E outcome \in {"fileError", "seekError", "exists", "putError", "put"} :
       LET i == artifact.i + 1
           f == artifact.artifactFile[i]
           layer == [Descriptor(artifact.artifactMT[i], fileDigest(f), fileSize(f))
                       EXCEPT !.Annotations = Some((ociAnnotTitle :> f))]
           m == [artifact.m[1] EXCEPT !.Layers = Append(artifact.m[1].Layers, layer)]
       IN /\ (outcome = "exists" => blobExists(layer.Digest))
          /\ CASE outcome = "fileError" ->
                    artifactReturn("error") /\ UNCHANGED <<target, artifact, query>>
               [] outcome \in {"seekError", "putError"} ->
                    /\ artifactReturn("error")
                    /\ artifact' = [artifact EXCEPT !.m = Some(m)]
                    /\ UNCHANGED target
               [] OTHER ->
                    /\ target' = IF outcome = "put"
                                 THEN Append(target, [op |-> "BlobPut", kind |-> "layer", d |-> layer])
                                 ELSE target
                    /\ artifact' = [artifact EXCEPT !.m = Some(m), !.i = i]
                    /\ pc' = IF i < Len(artifact.artifactFile) THEN "artifactFiles"
                             ELSE "artifactManifest"
                    /\ UNCHANGED err
  /\ UNCHANGED <<dag, stepsManifest, node, step, call, ran, repo, query>>

\* no files passed, push from stdin
runArtifactPutStdin ==
  /\ pc = "artifactFiles"
  /\ Len(artifact.artifactFile) = 0
  /\ \E ok \in BOOLEAN :
       LET mt == IF Len(artifact.artifactMT) > 0 THEN artifact.artifactMT[1] ELSE defaultMTLayer
           layer == Descriptor(mt, fileDigest("stdin"), fileSize("stdin"))
       IN IF ~ok THEN artifactReturn("error") /\ UNCHANGED <<target, artifact, query>>
          ELSE /\ target' = Append(target, [op |-> "BlobPut", kind |-> "layer", d |-> layer])
               /\ artifact' = [artifact EXCEPT
                                 !.m = Some([artifact.m[1] EXCEPT
                                               !.Layers = Append(artifact.m[1].Layers, layer)])]
               /\ pc' = "artifactManifest"
               /\ UNCHANGED err
  /\ UNCHANGED <<dag, stepsManifest, node, step, call, ran, repo, query>>

\* generate manifest, push manifest
runArtifactPutManifest ==
  /\ pc = "artifactManifest"
  /\ \E ok \in BOOLEAN :
       IF ~ok THEN artifactReturn("error") /\ UNCHANGED target
       ELSE /\ target' = Append(target, [op |-> "ManifestPut", kind |-> "manifest",
                                         d |-> ManifestDescriptor(artifact.m[1])])
            /\ pc' = "done"
            /\ UNCHANGED err
  /\ UNCHANGED <<dag, stepsManifest, node, step, call, ran, repo, artifact, query>>

\* ---------------------------------------------------------------------------
\* Package types: one call of Same, Equal, DescriptorListFilter or
\* DescriptorListSearch on descriptors a caller can hold
\* ---------------------------------------------------------------------------
\* longest descriptor list handed to DescriptorListFilter and DescriptorListSearch
MaxList == 3

\* every media type of the model, and one no table names
MediaTypes ==
  {MediaTypeDocker2ManifestList, MediaTypeDocker2Manifest, MediaTypeDocker2ImageConfig,
   MediaTypeDocker2LayerGzip, MediaTypeDocker2ForeignLayer, MediaTypeOCI1ManifestList,
   MediaTypeOCI1Manifest, MediaTypeOCI1ImageConfig, MediaTypeOCI1Layer,
   MediaTypeOCI1LayerGzip, MediaTypeOCI1LayerZstd, MediaTypeOCI1ForeignLayer,
   MediaTypeOCI1ForeignLayerGzip, MediaTypeOCI1ForeignLayerZstd, "application/custom"}

\* descriptors that differ in what Same reads
SameDescriptors ==
  {Descriptor(mt, dig, size) : mt \in MediaTypes, dig \in {"a", "b"}, size \in {10, 11}}

DarwinArm64 == Platform("darwin", "arm64")

\* values of the optional fields of a descriptor: absent, empty, one or two entries
URLLists == {Nil, Some(<<>>), Some(<<"u1">>), Some(<<"u2">>), Some(<<"u1", "u2">>)}

AnnotationMaps ==
  {Nil, Some(<<>>), Some(("k" :> "")), Some(("j" :> "")), Some(("k" :> "1")),
   Some(("k" :> "2")), Some(("k" :> "1") @@ ("j" :> "1"))}

\* descriptors that agree in digest and size and differ in what Equal reads
EqualDescriptors ==
  {[MediaType |-> mt, Digest |-> "a", Size |-> 10, URLs |-> urls, Annotations |-> annots,
    Platform |-> plat, ArtifactType |-> at] :
     mt \in {MediaTypeDocker2Manifest, MediaTypeOCI1Manifest}, urls \in URLLists,
     annots \in AnnotationMaps, plat \in {Nil, Some(LinuxAmd64), Some(LinuxArm64)},
     at \in {"", "application/sbom"}}

\* an entry of an index or of a referrers list
Entry(dig, plat, annots, at) ==
  [MediaType |-> MediaTypeOCI1Manifest, Digest |-> dig, Size |-> 10, URLs |-> Nil,
   Annotations |-> annots, Platform |-> plat, ArtifactType |-> at]

\* entries with and without the annotation "k", two of them with the same
\* value, for platforms that are the same, compatible or neither
ListDescriptors ==
  {Entry("a", Some(LinuxArm64), Nil, ""),
   Entry("b", Some(DarwinArm64), Some(("j" :> "1")), ""),
   Entry("c", Some(LinuxArm64), Some(("k" :> "1")), ""),
   Entry("d", Some(DarwinArm64), Some(("k" :> "1")), "application/sbom"),
   Entry("e", Some(LinuxAmd64), Some(("k" :> "2")), ""),
   Entry("f", Nil, Some(("k" :> "2") @@ ("j" :> "1")), "application/sbom"),
   Entry("g", Some(DarwinArm64), Some(("k" :> "")), "")}

DescriptorLists == SeqsUpTo(ListDescriptors, MaxList)

MatchOpts ==
  {MatchOpt(plat, at, annots, sortAnnotation, sortDesc) :
     plat \in {Nil, Some(DarwinArm64), Some(LinuxArm64)}, at \in {"", "application/sbom"},
     annots \in {Nil, Some(<<>>), Some(("k" :> "")), Some(("k" :> "1"))},
     sortAnnotation \in {"", "k"}, sortDesc \in BOOLEAN}

\* the call returns
answer(fn, args, ret) ==
  /\ pc = "types"
  /\ pc' = "answered"
  /\ query' = [fn |-> fn, args |-> args, ret |-> ret]
  /\ UNCHANGED <<dag, stepsManifest, node, step, err, target, call, ran, repo, artifact>>

DescriptorSame ==
  /\ pc = "types"
  /\ \E d \in SameDescriptors, d2 \in SameDescriptors : answer("Same", <<d, d2>>, Same(d, d2))

DescriptorEqual ==
  /\ pc = "types"
  /\ \E d \in EqualDescriptors, d2 \in EqualDescriptors : answer("Equal", <<d, d2>>, Equal(d, d2))

ListFilter ==
  /\ pc = "types"
  /\ \E dl \in DescriptorLists, opt \in MatchOpts :
       answer("DescriptorListFilter", <<dl, opt>>, DescriptorListFilter(dl, opt))

ListSearch ==
  /\ pc = "types"
  /\ \E dl \in DescriptorLists, opt \in MatchOpts :
       answer("DescriptorListSearch", <<dl, opt>>, DescriptorListSearch(dl, opt))

\* the blobs and manifests of the image the pipeline starts from
RepoOf(dags) ==
  [blobs |-> UNION {{dags[n].m.Layers[i].Digest : i \in 1..Len(dags[n].m.Layers)} :
                      n \in 1..Len(dags)},
   configs |-> {dags[n].m.Config.Digest : n \in {x \in 1..Len(dags) : ~dags[x].m.IsList}},
   manifests |-> {ManifestDescriptor(dags[n].m).Digest : n \in 1..Len(dags)}]

\* ---------------------------------------------------------------------------
\* Specifications
\* ---------------------------------------------------------------------------
InitWith(dags) ==
  /\ dag \in dags
  /\ stepsManifest = <<>>
  /\ pc = "opts"
  /\ node = 1
  /\ step = 1
  /\ err = ""
  /\ target = <<>>
  /\ call = NoCall
  /\ ran = <<>>
  /\ repo = RepoOf(dag)
  /\ artifact = NoArtifact
  /\ query = NoQuery

\* regctl artifact put with its options set, against a repository that may
\* hold the blob of a file
InitArtifact ==
  /\ dag = <<>>
  /\ stepsManifest = <<>>
  /\ pc = "artifact"
  /\ node = 1
  /\ step = 1
  /\ err = ""
  /\ target = <<>>
  /\ call = NoCall
  /\ ran = <<>>
  /\ \E blobs \in SUBSET {fileDigest("f")} :
       repo = [blobs |-> blobs, configs |-> {}, manifests |-> {}]
  /\ \E files \in SeqsUpTo(ArtifactFiles, MaxFiles), mts \in SeqsUpTo(ArtifactMTs, MaxFiles),
        configFile \in {"", "config.json"}, annots \in ArtifactAnnotations :
       artifact = [NoArtifact EXCEPT !.artifactFile = files, !.artifactMT = mts,
                                     !.configFile = configFile, !.annotations = annots]
  /\ query = NoQuery

Init == InitWith(Dags) \/ InitArtifact

Next ==
  \/ WithAnnotation
  \/ WithAnnotationOCIBase
  \/ WithLabelToAnnotation
  \/ WithExternalURLsRm
  \/ WithRebaseRefs
  \/ WithRebase
  \/ Run
  \/ RunStep
  \/ dagPut
  \/ runArtifactPutInputs
  \/ runArtifactPutConfig
  \/ runArtifactPutFile
  \/ runArtifactPutStdin
  \/ runArtifactPutManifest

Spec == Init /\ [][Next]_vars

\* a run with one rebase option on one image, up to the push
InitRebase == InitWith(RebaseDags)

NextRebase ==
  \/ WithRebaseRefsAny
  \/ Run
  \/ RunStep

SpecRebase == InitRebase /\ [][NextRebase]_vars

\* one call of a function of package types
InitTypes ==
  /\ dag = <<>>
  /\ stepsManifest = <<>>
  /\ pc = "types"
  /\ node = 1
  /\ step = 1
  /\ err = ""
  /\ target = <<>>
  /\ call = NoCall
  /\ ran = <<>>
  /\ repo = [blobs |-> {}, configs |-> {}, manifests |-> {}]
  /\ artifact = NoArtifact
  /\ query = NoQuery

NextTypes ==
  \/ DescriptorSame
  \/ DescriptorEqual
  \/ ListFilter
  \/ ListSearch

SpecTypes == InitTypes /\ [][NextTypes]_vars

\* ---------------------------------------------------------------------------
\* What the properties speak about
\* ---------------------------------------------------------------------------
\* the reference names a manifest of the registry
Resolves(r) ==
  IF r.Digest # Nil THEN Content(r.Digest) \in RegistryManifests ELSE r.Name \in DOMAIN Registry

\* the manifest a reference names
TopManifest(r) == IF r.Digest # Nil THEN Content(r.Digest) ELSE Registry[r.Name]

\* the reference stands for an image on platform p
HasImage(r, p) ==
  /\ Resolves(r)
  /\ TopManifest(r).IsList =>
       \E i \in 1..Len(TopManifest(r).Manifests) : TopManifest(r).Manifests[i].Platform = Some(p)

\* the image a base reference stands for on platform p
ImageOf(r, p) ==
  LET top == TopManifest(r)
      i == CHOOSE j \in 1..Len(top.Manifests) : top.Manifests[j].Platform = Some(p)
  IN IF top.IsList THEN Content(top.Manifests[i].Digest) ELSE top

\* the layers, history and diff-IDs of a manifest node
NodeParts(dm) ==
  [layers |-> dm.m.Layers, history |-> dm.config[1].oc.History,
   diffIDs |-> dm.config[1].oc.RootFS.DiffIDs]

\* the last invocation was a rebase step on an image that is not deleted
RebaseCalled == call.kind = "rebase" /\ ~call.pre.m.IsList /\ call.pre.mod # deleted

CallPlatform == call.pre.config[1].oc.Platform

\* that invocation had both bases at hand: each reference stands for an image
\* of the node's platform and no registry call failed
BasesLoaded ==
  /\ RebaseCalled
  /\ call.fail = 0
  /\ HasImage(call.st.rOld, CallPlatform)
  /\ HasImage(call.st.rNew, CallPlatform)

OldBase == Parts(ImageOf(call.st.rOld, CallPlatform))

NewBase == Parts(ImageOf(call.st.rNew, CallPlatform))

\* the descriptors of the two base references are identical
SameBaseDescriptor ==
  Equal(ManifestDescriptor(TopManifest(call.st.rOld)), ManifestDescriptor(TopManifest(call.st.rNew)))

IsPrefix(a, b) == Len(a) <= Len(b) /\ SubSeq(b, 1, Len(a)) = a

Drop(q, n) == SubSeq(q, n + 1, Len(q))

\* layer count, count of history entries with a layer and diff-ID count agree
Consistent(p) ==
  Len(p.layers) = historyLayers(p.history) /\ Len(p.layers) = Len(p.diffIDs)

\* the history entries that stand for a layer, in order
NonEmpty(history) == SelectSeq(history, LAMBDA h : ~h.EmptyLayer)

\* every history entry carries a created time
AllCreated(history) == \A i \in 1..Len(history) : history[i].Created # Nil

\* ---------------------------------------------------------------------------
\* C1: a successful rebase step on an image made of the old base followed by
\* extra entries, with consistent bases of different descriptors, leaves the
\* new base's layers, history and diff-IDs followed by the same extra entries
\* in their order.
\* ---------------------------------------------------------------------------
ExtendsOldBase ==
  /\ BasesLoaded
  /\ ~SameBaseDescriptor
  /\ Consistent(OldBase)
  /\ Consistent(NewBase)
  /\ IsPrefix(OldBase.layers, NodeParts(call.pre).layers)
  /\ IsPrefix(OldBase.history, NodeParts(call.pre).history)
  /\ IsPrefix(OldBase.diffIDs, NodeParts(call.pre).diffIDs)

RebaseCorrect ==
  (ExtendsOldBase /\ call.err = "") =>
     /\ NodeParts(call.post).layers
          = NewBase.layers \o Drop(NodeParts(call.pre).layers, Len(OldBase.layers))
     /\ NodeParts(call.post).history
          = NewBase.history \o Drop(NodeParts(call.pre).history, Len(OldBase.history))
     /\ NodeParts(call.post).diffIDs
          = NewBase.diffIDs \o Drop(NodeParts(call.pre).diffIDs, Len(OldBase.diffIDs))

\* a rebase succeeded on an image with an extra layer and an extra history
\* entry, onto a base with another number of layers and history entries
RebaseCorrectWitness ==
  /\ ExtendsOldBase
  /\ call.err = ""
  /\ Len(NodeParts(call.pre).layers) > Len(OldBase.layers)
  /\ Len(NewBase.layers) # Len(OldBase.layers)
  /\ Len(NewBase.history) - Len(NewBase.layers) # Len(OldBase.history) - Len(OldBase.layers)

\* ---------------------------------------------------------------------------
\* C2: a rebase step that returns without error on an image whose layer count,
\* non-empty history count and diff-ID count agree leaves them in agreement,
\* and layer i, diff-ID i and the i-th non-empty history entry of the result
\* come from the same position of the same image: position i of the new base,
\* or the position behind the old base's entries of the image rebased.
\* ---------------------------------------------------------------------------
FromSamePosition(res, new, img, k) ==
  \A i \in 1..Len(res.layers) :
    LET src == IF i <= Len(new.layers) THEN new ELSE img
        j == IF i <= Len(new.layers) THEN i ELSE k + i - Len(new.layers)
    IN /\ j <= Len(src.layers) /\ j <= Len(src.diffIDs) /\ j <= Len(NonEmpty(src.history))
       /\ res.layers[i] = src.layers[j]
       /\ res.diffIDs[i] = src.diffIDs[j]
       /\ NonEmpty(res.history)[i] = NonEmpty(src.history)[j]

AlignmentPreserved ==
  (RebaseCalled /\ call.err = "" /\ Consistent(NodeParts(call.pre))) =>
     /\ Consistent(NodeParts(call.post))
     /\ call.post # call.pre =>
          FromSamePosition(NodeParts(call.post), NewBase, NodeParts(call.pre),
                           Len(OldBase.layers))

\* a consistent image with extra entries was rebased onto a base of another size
AlignmentPreservedWitness ==
  /\ RebaseCalled
  /\ call.err = ""
  /\ Consistent(NodeParts(call.pre))
  /\ call.post # call.pre
  /\ Len(NodeParts(call.post).layers) > Len(NewBase.layers)
  /\ Len(NodeParts(call.post).layers) # Len(NodeParts(call.pre).layers)
  /\ Len(NodeParts(call.post).history) > Len(NodeParts(call.post).layers)

\* ---------------------------------------------------------------------------
\* C3: a rebase step on an image that does not extend the old base fails, at
\* every mismatch position, provided the two base descriptors are not
\* identical: with ErrMismatch when every history entry of the image and of
\* the old base carries a created time, else with ErrMismatch or the nil
\* dereference of a missing created time; the node stays as it was and no
\* blob is copied.
\* ---------------------------------------------------------------------------
HistoryDiffers(h, hOld) ==
  \/ h.Author # hOld.Author
  \/ h.Comment # hOld.Comment
  \/ h.Created # hOld.Created
  \/ h.CreatedBy # hOld.CreatedBy
  \/ h.EmptyLayer # hOld.EmptyLayer

NotExtension(img, old) ==
  \/ Len(img.layers) < Len(old.layers)
  \/ Len(img.history) < Len(old.history)
  \/ Len(img.diffIDs) < Len(old.diffIDs)
  \/ \E i \in 1..Len(old.layers) : i <= Len(img.layers) /\ ~Same(img.layers[i], old.layers[i])
  \/ \E i \in 1..Len(old.history) :
       i <= Len(img.history) /\ HistoryDiffers(img.history[i], old.history[i])
  \/ \E i \in 1..Len(old.diffIDs) : i <= Len(img.diffIDs) /\ img.diffIDs[i] # old.diffIDs[i]

SameBaseNoOp ==
  (/\ RebaseCalled
   /\ call.fail = 0
   /\ Resolves(call.st.rOld)
   /\ Resolves(call.st.rNew)
   /\ SameBaseDescriptor) =>
     /\ call.err = ""
     /\ call.post = call.pre
     /\ call.copied = <<>>

ExtendsNamedBase ==
  /\ IsPrefix(OldBase.layers, NodeParts(call.pre).layers)
  /\ Len(NodeParts(call.pre).layers) > Len(OldBase.layers)

\* a tag and the same manifest pinned by digest were given for an image that
\* extends the base with a layer
SameBaseNoOpWitness ==
  /\ RebaseCalled
  /\ call.fail = 0
  /\ Resolves(call.st.rOld)
  /\ Resolves(call.st.rNew)
  /\ SameBaseDescriptor
  /\ call.st.rOld # call.st.rNew
  /\ call.err = ""
  /\ ExtendsNamedBase

\* ---------------------------------------------------------------------------
\* C5: a rebase step fails with ErrMismatch when the old base or the new base
\* is internally inconsistent.  Stated for bases of different descriptors and
\* histories with created times, where the checks are reached.
\* ---------------------------------------------------------------------------
InconsistentBaseRejected ==
  (/\ BasesLoaded
   /\ ~SameBaseDescriptor
   /\ AllCreated(NodeParts(call.pre).history)
   /\ AllCreated(OldBase.history)
   /\ ~Consistent(OldBase) \/ ~Consistent(NewBase)) => call.err = "ErrMismatch"

\* ---------------------------------------------------------------------------
\* C6: in every rebase step that gets to the splice, the loop over the layer
\* nodes ends without indexing past the end, has removed as many nodes as the
\* old base has layers, none of them marked added, and leaves the other nodes
\* in their order.
\* ---------------------------------------------------------------------------
\* layers without its first n nodes that are not marked added
RECURSIVE RemoveBase(_, _)
RemoveBase(layers, n) ==
  IF n = 0 \/ layers = <<>> THEN layers
  ELSE IF layers[1].mod = added THEN <<layers[1]>> \o RemoveBase(Tail(layers), n)
  ELSE RemoveBase(Tail(layers), n - 1)

AddedNodes(layers) == SelectSeq(layers, LAMBDA dl : dl.mod = added)

\* validation passed and every blob was copied
ReachedSplice ==
  /\ RebaseCalled
  /\ Resolves(call.st.rOld)
  /\ Resolves(call.st.rNew)
  /\ ~SameBaseDescriptor
  /\ call.err \in {"", PanicIndex}

PruneExact ==
  ReachedSplice =>
    LET rest == Drop(call.post.layers, Len(NewBase.layers))
    IN /\ call.err # PanicIndex
       /\ Len(call.pre.layers) - Len(rest) = Len(OldBase.layers)
       /\ AddedNodes(rest) = AddedNodes(call.pre.layers)
       /\ rest = RemoveBase(call.pre.layers, Len(OldBase.layers))

\* the splice ran on a sequence with an added node in front of old-base nodes
PruneExactWitness ==
  /\ ReachedSplice
  /\ call.err = ""
  /\ Len(OldBase.layers) >= 2
  /\ \E i \in 1..Len(OldBase.layers) : call.pre.layers[i].mod = added
  /\ Len(call.pre.layers) > Len(OldBase.layers) + 1

\* ---------------------------------------------------------------------------
\* C7: in every state, a manifest node whose modification state is not
\* unchanged (and that is not deleted: a deleted node has no content to
\* describe) has for new descriptor the descriptor of its manifest, and a
\* config node with modified set has for new descriptor the descriptor of its
\* config.
\* ---------------------------------------------------------------------------
DescriptorsCurrent ==
  \A n \in 1..Len(dag) :
    /\ dag[n].mod \notin {unchanged, deleted} => dag[n].newDesc = ManifestDescriptor(dag[n].m)
    /\ (dag[n].config # Nil /\ dag[n].config[1].modified) =>
         dag[n].config[1].newDesc = ConfigDescriptor(dag[n].config[1].oc)

\* ---------------------------------------------------------------------------
\* C8: nothing is written to the target repository before every step has
\* succeeded on every node.  As stated: when a run has failed in an option or
\* a step, the target repository has received no write.
\* ---------------------------------------------------------------------------
NothingWrittenOnFailure == pc = "failed" => target = <<>>

\* C8 as the code has it: until every step has succeeded no manifest and no
\* config is written; what is written is a copy of a new base's layers, in
\* their order, made by a rebase step whose bases differ and whose validation
\* passed; a run without such a step has written nothing when a step fails.
OnlyBaseLayersBeforePush ==
  /\ pc \in {"opts", "run", "failed"} =>
       \A i \in 1..Len(target) : target[i].op = "BlobCopy" /\ target[i].kind = "layer"
  /\ (call.kind # "none" /\ call.copied # <<>>) =>
       /\ RebaseCalled
       /\ HasImage(call.st.rOld, CallPlatform)
       /\ HasImage(call.st.rNew, CallPlatform)
       /\ ~SameBaseDescriptor
       /\ ~NotExtension(NodeParts(call.pre), OldBase)
       /\ Consistent(OldBase)
       /\ Consistent(NewBase)
       /\ IsPrefix(call.copied, NewBase.layers)
  /\ (pc \in {"opts", "run", "failed"}
      /\ \A i \in 1..Len(stepsManifest) : stepsManifest[i].kind # "rebase") => target = <<>>

\* a step failed after blobs of a new base had been copied
OnlyBaseLayersBeforePushWitness ==
  /\ pc = "failed"
  /\ Len(target) > 0
  /\ call.err # ""

\* ---------------------------------------------------------------------------
\* C9: an option that succeeds puts one step at the end of the step list and
\* leaves the steps before it in place; a run invokes the steps in that order
\* on each node, node after node, stops at the first error a step returns and
\* invokes no step after it.
\* ---------------------------------------------------------------------------
\* the arguments a step was registered with
Registered(st) == [st EXCEPT !.mbOldCache = Nil, !.mbNewCache = Nil]

OptionAppends ==
  /\ (pc = "opts" /\ pc' = "opts") =>
       \/ UNCHANGED stepsManifest
       \/ /\ Len(stepsManifest') = Len(stepsManifest) + 1
          /\ SubSeq(stepsManifest', 1, Len(stepsManifest)) = stepsManifest
  /\ pc # "opts" =>
       /\ Len(stepsManifest') = Len(stepsManifest)
       /\ \A i \in 1..Len(stepsManifest) :
            Registered(stepsManifest'[i]) = Registered(stepsManifest[i])
  /\ pc \in {"failed", "put", "pushfailed", "done"} => ran' = ran

RanInOrder ==
  /\ \A i \in 1..Len(ran) :
       /\ ran[i].step = ((i - 1) % Len(stepsManifest)) + 1
       /\ ran[i].node = ((i - 1) \div Len(stepsManifest)) + 1
       /\ i < Len(ran) => ran[i].err = ""
  /\ (pc = "run" /\ ran # <<>>) => ran[Len(ran)].err = ""
  /\ pc = "run" => Len(ran) = (node - 1) * Len(stepsManifest) + (step - 1)
  /\ (pc = "failed" /\ ran # <<>>) => ran[Len(ran)].err # ""
  /\ pc \in {"put", "pushfailed", "done"} =>
       /\ Len(ran) = Len(dag) * Len(stepsManifest)
       /\ \A i \in 1..Len(ran) : ran[i].err = ""

StepsInOrder == []RanInOrder /\ [][OptionAppends]_vars

\* the second of two steps failed on the first node of an index of two images
StepsInOrderWitness ==
  /\ pc = "failed"
  /\ Len(stepsManifest) = 2
  /\ Len(dag) = 3
  /\ Len(ran) = 2
  /\ stepsManifest[1] # stepsManifest[2]

\* ---------------------------------------------------------------------------
\* C10: a manifest is put after its config blob and each of its layer blobs
\* has been put or copied, or was in the repository; an index is put after
\* each manifest it refers to and no manifest is put after it; when a put of a
\* blob fails in regctl artifact put, no manifest is put.
\* ---------------------------------------------------------------------------
WrittenBefore(kind, dig, i) ==
  \E j \in 1..(i - 1) : target[j].kind = kind /\ target[j].d.Digest = dig

PushOrder ==
  /\ \A i \in 1..Len(target) :
       target[i].op = "ManifestPut" =>
         IF Content(target[i].d.Digest).IsList
         THEN /\ \A k \in 1..Len(Content(target[i].d.Digest).Manifests) :
                   \/ Content(target[i].d.Digest).Manifests[k].Digest \in repo.manifests
                   \/ WrittenBefore("manifest", Content(target[i].d.Digest).Manifests[k].Digest, i)
              /\ \A j \in (i + 1)..Len(target) : target[j].op # "ManifestPut"
         ELSE /\ \/ Content(target[i].d.Digest).Config.Digest \in repo.configs
                 \/ WrittenBefore("config", Content(target[i].d.Digest).Config.Digest, i)
              /\ \A k \in 1..Len(Content(target[i].d.Digest).Layers) :
                   \/ Content(target[i].d.Digest).Layers[k].Digest \in repo.blobs
                   \/ WrittenBefore("layer", Content(target[i].d.Digest).Layers[k].Digest, i)
  /\ pc = "artifactFailed" => \A i \in 1..Len(target) : target[i].op # "ManifestPut"
  /\ pc = "done" =>
       \A n \in 1..Len(dag) :
         dag[n].mod = replaced =>
           \E i \in 1..Len(target) :
             target[i].op = "ManifestPut" /\ target[i].d = ManifestDescriptor(dag[n].m)

\* regctl artifact put of two files: one blob was found in the repository, the
\* other was put after the config, the manifest last
PushOrderWitness ==
  /\ pc = "done"
  /\ artifact.m # Nil
  /\ Len(artifact.m[1].Layers) = 2
  /\ Len(target) = 3
  /\ target[1].kind = "config"
  /\ target[2].kind = "layer"
  /\ target[3].op = "ManifestPut"

\* ---------------------------------------------------------------------------
\* C11: an annotation-set step invoked on a top node that is not deleted
\* returns no error; with value "" the key is absent afterwards, otherwise the
\* key holds the value; every other annotation is as before.  When the map
\* changed (the key was there for a delete; the key was absent or held another
\* value for a set) the node is replaced, its new descriptor is the descriptor
\* of the new manifest and nothing but the annotations differs; when the map did
\* not change the node, its modification state and descriptor included, is as
\* it was.
\* ---------------------------------------------------------------------------
AnnotationCalled == call.kind = "annotation" /\ call.pre.top /\ call.pre.mod # deleted

\* the annotations of a manifest as a set of key/value pairs
AnnotationPairs(m) ==
  IF m.Annotations = Nil THEN {}
  ELSE {<<k, m.Annotations[1][k]>> : k \in DOMAIN m.Annotations[1]}

\* the request changes the annotations
AnnotationDiffers(pairs, name, value) ==
  IF value = "" THEN \E p \in pairs : p[1] = name
  ELSE <<name, value>> \notin pairs

AnnotationSet ==
  AnnotationCalled =>
    LET before == AnnotationPairs(call.pre.m)
        after == AnnotationPairs(call.post.m)
        name == call.st.name
        value == call.st.value
    IN /\ call.err = ""
       /\ value = "" => ~\E p \in after : p[1] = name
       /\ value # "" => {p \in after : p[1] = name} = {<<name, value>>}
       /\ {p \in after : p[1] # name} = {p \in before : p[1] # name}
       /\ AnnotationDiffers(before, name, value) =>
            /\ call.post.mod = replaced
            /\ call.post.newDesc = ManifestDescriptor(call.post.m)
            /\ call.post.newDesc # ManifestDescriptor(call.pre.m)
            /\ [call.post EXCEPT !.m.Annotations = call.pre.m.Annotations,
                                 !.mod = call.pre.mod, !.newDesc = call.pre.newDesc] = call.pre
       /\ ~AnnotationDiffers(before, name, value) => call.post = call.pre

\* a key set by the step before is deleted again
AnnotationSetWitness ==
  /\ AnnotationCalled
  /\ call.st.value = ""
  /\ <<call.st.name, "v">> \in AnnotationPairs(call.pre.m)
  /\ call.post.mod = replaced
  /\ call.post.m.Annotations = Some(<<>>)

\* ---------------------------------------------------------------------------
\* C12: an annotation-set or base-annotation-set step invoked on a manifest
\* node that is not the top node, or on a deleted node, returns no error and
\* leaves the node as it was: annotations, modification state, descriptor and
\* everything else.
\* ---------------------------------------------------------------------------
TopStepCalled == call.kind \in {"annotation", "annotationOCIBase"}

TopNodeOnly ==
  (TopStepCalled /\ (~call.pre.top \/ call.pre.mod = deleted)) =>
    /\ call.err = ""
    /\ call.post.m.Annotations = call.pre.m.Annotations
    /\ call.post.mod = call.pre.mod
    /\ call.post.newDesc = call.pre.newDesc
    /\ call.post = call.pre

\* a base-annotation step has passed over the deleted first child of an index
\* and over the second, which is not deleted and has no base annotation, and
\* left both alone
TopNodeOnlyWitness ==
  /\ call.kind = "annotationOCIBase"
  /\ call.node = 2
  /\ ~call.pre.top
  /\ call.pre.mod = unchanged
  /\ ~call.pre.m.IsList
  /\ annoBaseName \notin DOMAIN annotations(call.pre.m)
  /\ dag[1].mod = deleted
  /\ ~dag[1].top
  /\ \E i \in 1..Len(ran) : ran[i].node = 1 /\ stepsManifest[ran[i].step].kind = "annotationOCIBase"
  /\ dag[2].mod = unchanged

\* ---------------------------------------------------------------------------
\* C13: each of the steps annotation-set, base-annotation-set, label copy and
\* URL strip returns no error and is idempotent: a second run of the step on
\* the node the first run left changes nothing (manifest, modification state,
\* descriptors, layer nodes), both when the second run is evaluated on the
\* result of any invocation and when the pipeline runs the same step twice in
\* a row on a node; and a run on an unchanged node that already is in the
\* requested state leaves the node as it was.
\* ---------------------------------------------------------------------------
IdempotentKinds == {"annotation", "annotationOCIBase", "labelToAnnotation", "externalURLsRm"}

\* the labels of the image config of a node, as key/value pairs
LabelPairs(dm) ==
  IF dm.m.IsList \/ dm.config = Nil THEN {}
  ELSE IF dm.config[1].oc.Labels = Nil THEN {}
  ELSE {<<k, dm.config[1].oc.Labels[1][k]>> : k \in DOMAIN dm.config[1].oc.Labels[1]}

\* the node already is what the step asks for
InRequestedState(st, dm) ==
  CASE st.kind = "annotation" -> ~AnnotationDiffers(AnnotationPairs(dm.m), st.name, st.value)
    [] st.kind = "annotationOCIBase" ->
         {<<annoBaseName, st.rOld.Name>>, <<annoBaseDig, DigestString(st.dBase)>>}
           \subseteq AnnotationPairs(dm.m)
    [] st.kind = "labelToAnnotation" -> LabelPairs(dm) \subseteq AnnotationPairs(dm.m)
    [] st.kind = "externalURLsRm" ->
         \A i \in 1..Len(dm.m.Layers) :
           dm.m.Layers[i].URLs = Nil \/ dm.m.Layers[i].URLs = Some(<<>>)

\* the last two invocations ran the same step on the same node
RanTwice ==
  /\ Len(ran) >= 2
  /\ ran[Len(ran)].node = ran[Len(ran) - 1].node
  /\ ran[Len(ran)].step = ran[Len(ran) - 1].step + 1
  /\ Registered(stepsManifest[ran[Len(ran)].step]) = Registered(stepsManifest[ran[Len(ran) - 1].step])

Idempotent ==
  call.kind \in IdempotentKinds =>
    /\ call.err = ""
    /\ invoke(call.st, call.post, 0).dm = call.post
    /\ invoke(call.st, call.post, 0).err = ""
    /\ RanTwice => call.post = call.pre
    /\ (call.pre.mod = unchanged /\ InRequestedState(call.st, call.pre)) => call.post = call.pre

\* the URL strip ran twice in a row on an image with foreign layers: the first
\* run replaced the manifest, the second found nothing to do
IdempotentWitness ==
  /\ call.kind = "externalURLsRm"
  /\ RanTwice
  /\ call.pre.mod = replaced
  /\ call.pre.newDesc = ManifestDescriptor(call.pre.m)
  /\ \E i \in 1..Len(call.pre.layers) : call.pre.layers[i].newDesc # ZeroLayerDesc

\* ---------------------------------------------------------------------------
\* C14: a URL-strip step invoked on an image manifest that is not deleted
\* returns no error and keeps the number and order of the layers; a layer that
\* had URLs ends with an empty URL list and the media type the table gives
\* (Docker foreign to Docker gzip; OCI foreign, foreign gzip, foreign zstd to
\* OCI layer, layer gzip, layer zstd; any other kept), its other fields as
\* before; a layer without URLs is as before; the manifest is replaced, with
\* the descriptor of the new manifest, when some layer had URLs, and is left
\* with its modification state and descriptor when none had; the step leaves
\* an index as it was.
\* ---------------------------------------------------------------------------
StripCalled == call.kind = "externalURLsRm" /\ call.pre.mod # deleted /\ ~call.pre.m.IsList

HasURLs(d) == d.URLs # Nil /\ d.URLs # Some(<<>>)

\* the foreign media types and the media type each stands for
StripTable ==
  {<<MediaTypeDocker2ForeignLayer, MediaTypeDocker2LayerGzip>>,
   <<MediaTypeOCI1ForeignLayer, MediaTypeOCI1Layer>>,
   <<MediaTypeOCI1ForeignLayerGzip, MediaTypeOCI1LayerGzip>>,
   <<MediaTypeOCI1ForeignLayerZstd, MediaTypeOCI1LayerZstd>>}

Remapped(from, to) ==
  \/ <<from, to>> \in StripTable
  \/ (to = from /\ \A row \in StripTable : row[1] # from)

URLsStripped ==
  /\ StripCalled =>
       /\ call.err = ""
       /\ Len(call.post.m.Layers) = Len(call.pre.m.Layers)
       /\ \A i \in 1..Len(call.pre.m.Layers) :
            IF HasURLs(call.pre.m.Layers[i])
            THEN /\ ~HasURLs(call.post.m.Layers[i])
                 /\ Remapped(call.pre.m.Layers[i].MediaType, call.post.m.Layers[i].MediaType)
                 /\ [call.post.m.Layers[i] EXCEPT !.URLs = Nil, !.MediaType = ""]
                      = [call.pre.m.Layers[i] EXCEPT !.URLs = Nil, !.MediaType = ""]
            ELSE call.post.m.Layers[i] = call.pre.m.Layers[i]
       /\ [call.post.m EXCEPT !.Layers = call.pre.m.Layers] = call.pre.m
       /\ IF \E i \in 1..Len(call.pre.m.Layers) : HasURLs(call.pre.m.Layers[i])
          THEN /\ call.post.mod = replaced
               /\ call.post.newDesc = ManifestDescriptor(call.post.m)
               /\ call.post.newDesc # ManifestDescriptor(call.pre.m)
          ELSE /\ call.post.mod = call.pre.mod
               /\ call.post.newDesc = call.pre.newDesc
  /\ (call.kind = "externalURLsRm" /\ call.pre.m.IsList) =>
       call.err = "" /\ call.post = call.pre

\* the step ran on the image that has a layer of every row of the table, a
\* layer with URLs under a media type that is not foreign, a layer with an
\* empty URL list and layers without URLs
URLsStrippedWitness ==
  /\ StripCalled
  /\ call.post.mod = replaced
  /\ \A row \in StripTable :
       \E i \in 1..Len(call.pre.m.Layers) :
         /\ HasURLs(call.pre.m.Layers[i])
         /\ call.pre.m.Layers[i].MediaType = row[1]
         /\ call.post.m.Layers[i].MediaType = row[2]
  /\ \E i \in 1..Len(call.pre.m.Layers) :
       HasURLs(call.pre.m.Layers[i]) /\ call.post.m.Layers[i].MediaType = call.pre.m.Layers[i].MediaType
  /\ \E i \in 1..Len(call.pre.m.Layers) : call.pre.m.Layers[i].URLs = Some(<<>>)
  /\ \E i \in 1..Len(call.pre.m.Layers) : call.pre.m.Layers[i].URLs = Nil

\* ---------------------------------------------------------------------------
\* C15: after a URL-strip step has run on an image manifest that is not
\* deleted, the node has one layer node per layer of the manifest and every
\* layer node that is not deleted has an effective descriptor (the new one
\* when set, else the original) without URLs that agrees with the layer of the
\* manifest at its position in media type, digest and size.
\* ---------------------------------------------------------------------------
\* the descriptor of a layer node later steps go by
Effective(dl) == IF dl.newDesc.Digest # "" THEN dl.newDesc ELSE dl.desc

DagLayersMirrored ==
  (StripCalled /\ call.err = "") =>
    /\ Len(call.post.layers) = Len(call.post.m.Layers)
    /\ \A i \in 1..Len(call.post.layers) :
         call.post.layers[i].mod # deleted =>
           /\ ~HasURLs(Effective(call.post.layers[i]))
           /\ Effective(call.post.layers[i]).Digest = call.post.m.Layers[i].Digest
           /\ Effective(call.post.layers[i]).Size = call.post.m.Layers[i].Size
           /\ Effective(call.post.layers[i]).MediaType = call.post.m.Layers[i].MediaType

\* ---------------------------------------------------------------------------
\* C16: Same(d1, d2) is true exactly when digest and size are equal and the
\* media types are identical or are two spellings of one media type in the
\* Docker to OCI table; Same(d2, d1) gives the same answer, and Same(d, d) is
\* true for every descriptor, also when no table names its media type.
\* ---------------------------------------------------------------------------
\* the pairs of spellings of the table
Spellings ==
  {{MediaTypeDocker2ManifestList, MediaTypeOCI1ManifestList},
   {MediaTypeDocker2Manifest, MediaTypeOCI1Manifest},
   {MediaTypeDocker2ImageConfig, MediaTypeOCI1ImageConfig},
   {MediaTypeDocker2LayerGzip, MediaTypeOCI1LayerGzip}}

Equivalent(mt, mt2) == mt = mt2 \/ \E c \in Spellings : mt \in c /\ mt2 \in c

SameCorrect ==
  query.fn = "Same" =>
    LET d == query.args[1]
        d2 == query.args[2]
    IN /\ query.ret =
            (d.Digest = d2.Digest /\ d.Size = d2.Size /\ Equivalent(d.MediaType, d2.MediaType))
       /\ query.ret = Same(d2, d)
       /\ d = d2 => query.ret

\* a Docker layer and the OCI layer of the same blob are the same
SameCorrectWitness ==
  /\ query.fn = "Same"
  /\ query.ret
  /\ query.args[1].MediaType = MediaTypeDocker2LayerGzip
  /\ query.args[2].MediaType = MediaTypeOCI1LayerGzip

\* ---------------------------------------------------------------------------
\* C17: when Equal(d1, d2) is true the descriptors are identical: same media
\* type, digest, size, artifact type, platform, the same URLs in the same
\* order, and annotation maps with the same keys and the same value for each.
\* ---------------------------------------------------------------------------
\* an optional list, a missing one read as empty
Elements(opt) == IF opt = Nil THEN <<>> ELSE opt[1]

\* an optional map as key/value pairs
Pairs(opt) == IF opt = Nil THEN {} ELSE {<<k, opt[1][k]>> : k \in DOMAIN opt[1]}

EqualIsIdentity ==
  (query.fn = "Equal" /\ query.ret) =>
    LET d == query.args[1]
        d2 == query.args[2]
    IN /\ d.MediaType = d2.MediaType
       /\ d.Digest = d2.Digest
       /\ d.Size = d2.Size
       /\ d.ArtifactType = d2.ArtifactType
       /\ d.Platform = d2.Platform
       /\ Elements(d.URLs) = Elements(d2.URLs)
       /\ Pairs(d.Annotations) = Pairs(d2.Annotations)

\* ---------------------------------------------------------------------------
\* C18: DescriptorListFilter with a sort annotation returns the descriptors of
\* the input that Match the options, each as often as the input has it, and no
\* other; in the result every descriptor without the sort annotation comes
\* after every descriptor with it, ascending or descending, also when several
\* descriptors carry the same value.
\* ---------------------------------------------------------------------------
Occurrences(q, x) == Cardinality({i \in 1..Len(q) : q[i] = x})

HasAnnotation(d, key) == d.Annotations # Nil /\ key \in DOMAIN d.Annotations[1]

SortedFilter ==
  (query.fn = "DescriptorListFilter" /\ query.args[2].SortAnnotation # "") =>
    LET dl == query.args[1]
        opt == query.args[2]
        ret == query.ret
    IN /\ \A d \in ListDescriptors :
            Occurrences(ret, d) = IF Match(d, opt) THEN Occurrences(dl, d) ELSE 0
       /\ \A i \in 1..Len(ret), j \in 1..Len(ret) :
            (HasAnnotation(ret[i], opt.SortAnnotation) /\ ~HasAnnotation(ret[j], opt.SortAnnotation))
              => i < j

\* a descending sort that moved two descriptors with the same value in front
\* of a descriptor without the annotation
SortedFilterWitness ==
  /\ query.fn = "DescriptorListFilter"
  /\ query.args[2].SortAnnotation = "k"
  /\ query.args[2].SortDesc
  /\ Len(query.ret) = 3
  /\ ~HasAnnotation(query.args[1][1], "k")
  /\ HasAnnotation(query.ret[1], "k")
  /\ HasAnnotation(query.ret[2], "k")
  /\ query.ret[1] # query.ret[2]
  /\ query.ret[1].Annotations[1]["k"] = query.ret[2].Annotations[1]["k"]
  /\ query.ret[3] = query.args[1][1]

\* ---------------------------------------------------------------------------
\* C19: DescriptorListSearch returns ErrNotFound exactly when no descriptor of
\* the list Matches the options; otherwise it returns no error and, when a
\* platform is asked for and a descriptor of the filtered list has exactly that
\* platform, the first such descriptor in the order of the filtered list, in
\* every other case the first descriptor of the filtered list.
\* ---------------------------------------------------------------------------
\* positions of the filtered list whose platform is the one asked for
ExactMatches(filtered, opt) ==
  IF opt.Platform = Nil THEN {}
  ELSE {i \in 1..Len(filtered) : filtered[i].Platform = opt.Platform}

SearchPrefersExact ==
  query.fn = "DescriptorListSearch" =>
    LET dl == query.args[1]
        opt == query.args[2]
        filtered == DescriptorListFilter(dl, opt)
        exact == ExactMatches(filtered, opt)
    IN /\ query.ret.err \in {"", "ErrNotFound"}
       /\ query.ret.err = "ErrNotFound" <=> ~\E i \in 1..Len(dl) : Match(dl[i], opt)
       /\ query.ret.err = "" =>
            IF exact # {}
            THEN \E i \in exact : query.ret.d = filtered[i] /\ \A j \in exact : i <= j
            ELSE query.ret.d = filtered[1]

\* a search for darwin/arm64 in a list whose first match is a linux/arm64
\* entry returned the darwin/arm64 entry behind it
SearchPrefersExactWitness ==
  /\ query.fn = "DescriptorListSearch"
  /\ query.ret.err = ""
  /\ query.args[2].Platform = Some(DarwinArm64)
  /\ query.args[1][1].Platform = Some(LinuxArm64)
  /\ Match(query.args[1][1], query.args[2])
  /\ query.args[2].SortAnnotation = ""
  /\ query.ret.d.Platform = Some(DarwinArm64)
  /\ query.ret.d # query.args[1][1]

\* ---------------------------------------------------------------------------
\* C20: an option that fails registers no step; on an image that lacks the
\* base-name or the base-digest annotation the option inferring the old base
\* fails with ErrMissingAnnotation, and no option fails with that error on an
\* image that has both; a rebase step whose old base is pinned to a digest is
\* registered only on an image that has both annotations, its old base is the
\* annotated name pinned to the annotated digest and its new base is the
\* annotated name.
\* ---------------------------------------------------------------------------
BaseAnnotationMissing ==
  \/ ~\E p \in AnnotationPairs(root.m) : p[1] = annoBaseName
  \/ ~\E p \in AnnotationPairs(root.m) : p[1] = annoBaseDig

\* the step an option has put at the end of the list infers its old base
InferredStepAdded ==
  /\ Len(stepsManifest') = Len(stepsManifest) + 1
  /\ stepsManifest'[Len(stepsManifest')].kind = "rebase"
  /\ stepsManifest'[Len(stepsManifest')].rOld.Digest # Nil

InferredBaseStep ==
  pc = "opts" =>
    /\ pc' = "failed" =>
         /\ stepsManifest' = stepsManifest
         /\ ran' = <<>>
         /\ target' = <<>>
         /\ err' # ""
         /\ err' = "ErrMissingAnnotation" <=> BaseAnnotationMissing
    /\ InferredStepAdded =>
         LET st == stepsManifest'[Len(stepsManifest')]
         IN /\ ~BaseAnnotationMissing
            /\ <<annoBaseName, st.rOld.Name>> \in AnnotationPairs(root.m)
            /\ <<annoBaseDig, DigestString(st.rOld.Digest)>> \in AnnotationPairs(root.m)
            /\ st.rNew = Ref(st.rOld.Name)
            /\ pc' = "opts"
            /\ err' = ""

InferredBase == [][InferredBaseStep]_vars

\* on an image that names its base without a digest the option failed after
\* another option had registered its step
InferredBaseWitness ==
  /\ pc = "failed"
  /\ err = "ErrMissingAnnotation"
  /\ ran = <<>>
  /\ \E p \in AnnotationPairs(root.m) : p[1] = annoBaseName
  /\ Len(stepsManifest) = 1
  /\ stepsManifest[1].kind # "rebase"

\* ---------------------------------------------------------------------------
\* C21: within one registered rebase step, over the invocations of a run, the
\* manifest the old base reference names and the one the new base reference
\* names are each fetched successfully at most once; once fetched, the
\* manifest is the one the step keeps for its later invocations; and an
\* invocation on an index node or on a deleted node fetches nothing.
\* ---------------------------------------------------------------------------
\* the successful fetches, by step s, of the reference named for a base:
\* pairs of the invocation and the position among its fetches
TopFetches(s, base) ==
  UNION {{<<i, j>> : j \in {k \in 1..Len(ran[i].fetched) :
                              /\ ran[i].fetched[k].top
                              /\ ran[i].fetched[k].base = base
                              /\ ran[i].fetched[k].err = ""}} :
           i \in {x \in 1..Len(ran) : ran[x].step = s}}

\* the manifest step s keeps for a base
Cached(s, base) ==
  IF base = "old" THEN stepsManifest[s].mbOldCache ELSE stepsManifest[s].mbNewCache

BaseRef(s, base) == IF base = "old" THEN stepsManifest[s].rOld ELSE stepsManifest[s].rNew

FetchedOnce ==
  \A s \in 1..Len(stepsManifest) :
    stepsManifest[s].kind = "rebase" =>
      /\ \A base \in {"old", "new"} :
           /\ Cardinality(TopFetches(s, base)) <= 1
           /\ TopFetches(s, base) # {} => Cached(s, base) = Some(TopManifest(BaseRef(s, base)))
      /\ \A i \in 1..Len(ran) :
           (ran[i].step = s /\ (dag[ran[i].node].m.IsList \/ dag[ran[i].node].mod = deleted))
             => ran[i].fetched = <<>>

\* a rebase step went over an index of two images: on the first it fetched
\* both base manifests, on the second none of the two although it rebased the
\* image, on the index nothing at all
FetchedOnceWitness ==
  /\ Len(dag) = 3
  /\ Len(stepsManifest) = 1
  /\ stepsManifest[1].kind = "rebase"
  /\ Len(ran) = 3
  /\ Cardinality({k \in 1..Len(ran[1].fetched) : ran[1].fetched[k].top}) = 2
  /\ ~\E k \in 1..Len(ran[2].fetched) : ran[2].fetched[k].top
  /\ \E k \in 1..Len(ran[2].fetched) : ~ran[2].fetched[k].top
  /\ dag[1].mod = replaced
  /\ dag[2].mod = replaced
  /\ dag[3].m.IsList
  /\ ran[3].fetched = <<>>

\* ---------------------------------------------------------------------------
\* C22: whenever a rebase step returns a validation error (the image's
\* layers, history or diff-IDs do not match the old base, or the old or the
\* new base is inconsistent in itself), no blob of the new base has been
\* copied to the target repository and the manifest node is exactly as before
\* the step: layer nodes, manifest layers, config history and diff-IDs,
\* modification state, config modified flag and descriptors.
\* ---------------------------------------------------------------------------
\* with both bases at hand and no registry failure, the step returned an error
ValidationError ==
  /\ BasesLoaded
  /\ ~SameBaseDescriptor
  /\ call.err \in {"ErrMismatch", "error"}

ValidationLeavesNode ==
  ValidationError =>
    /\ \/ NotExtension(NodeParts(call.pre), OldBase)
       \/ ~Consistent(OldBase)
       \/ ~Consistent(NewBase)
    /\ call.copied = <<>>
    /\ target = <<>>
    /\ call.post.layers = call.pre.layers
    /\ call.post.m = call.pre.m
    /\ call.post.config = call.pre.config
    /\ call.post.mod = call.pre.mod
    /\ call.post.newDesc = call.pre.newDesc
    /\ call.post = call.pre
    /\ dag[call.node] = call.pre

\* the last of the checks failed: an image that extends a consistent old base
\* was to be moved onto a new base with layers whose config names fewer
\* diff-IDs than it has layers
ValidationLeavesNodeWitness ==
  /\ ValidationError
  /\ ~NotExtension(NodeParts(call.pre), OldBase)
  /\ Consistent(OldBase)
  /\ ~Consistent(NewBase)
  /\ Len(NewBase.layers) > 0
  /\ Len(NodeParts(call.pre).layers) > Len(OldBase.layers)
  /\ call.err = "error"

\* ---------------------------------------------------------------------------
\* C23: after every successful rebase step the layer nodes are aligned by
\* position with the manifest's layers: as many nodes as layers, node i has
\* layer i as its descriptor, the first nodes are the new base's layers in
\* order, unchanged, each with the new base's diff-ID of its position as
\* uncompressed digest, and the nodes behind them are the nodes that were
\* there before the step and did not belong to the old base; also when nodes
\* were marked added before the step.
\* ---------------------------------------------------------------------------
\* the first nodes are the ones made for the new base, the others the ones
\* the step began with less the old base's
NewBaseInFront(layers) ==
  /\ Len(layers) >= Len(NewBase.layers)
  /\ \A i \in 1..Len(NewBase.layers) :
       /\ layers[i].desc = NewBase.layers[i]
       /\ layers[i].mod = unchanged
       /\ layers[i].ucDigest = NewBase.diffIDs[i]
  /\ Drop(layers, Len(NewBase.layers)) = RemoveBase(call.pre.layers, Len(OldBase.layers))

\* the nodes, one for one, carry the manifest's layers
Aligned(layers, dm) ==
  /\ Len(layers) = Len(dm.m.Layers)
  /\ \A i \in 1..Len(layers) : i <= Len(dm.m.Layers) => layers[i].desc = dm.m.Layers[i]

NotAdded(layers) == SelectSeq(layers, LAMBDA dl : dl.mod # added)

Start == CHOOSE d \in Dags : RepoOf(d) = repo

\* a pipeline of the four kinds of step is under way, or over with the push
\* yet to begin
ContentSteps ==
  /\ dag # <<>>
  /\ pc = "run" \/ (pc = "put" /\ node = 1 /\ target = <<>>)
  /\ \A s \in 1..Len(stepsManifest) : stepsManifest[s].kind # "rebase"

\* some invocation on node n changed the content of its manifest
ChangedBySomeStep(n) == \E i \in 1..Len(ran) : ran[i].node = n /\ ran[i].changed

\* the claim as stated
ReplacedOnlyIfDiffers ==
  ContentSteps =>
    \A n \in 1..Len(dag) :
      dag[n].mod = replaced => ManifestDescriptor(dag[n].m) # ManifestDescriptor(Start[n].m)

\* a node is marked replaced exactly when some step changed its content, and
\* is then given the descriptor of the content it has, be it the content it
\* started with
ReplacedOnlyIfChanged ==
  ContentSteps =>
    \A n \in 1..Len(dag) :
      /\ dag[n].mod = replaced <=> ChangedBySomeStep(n)
      /\ ~ChangedBySomeStep(n) => dag[n].m = Start[n].m /\ dag[n].mod = Start[n].mod
      /\ dag[n].mod = replaced => dag[n].newDesc = ManifestDescriptor(dag[n].m)

\* an annotation the image did not have was set and then deleted: the node is
\* marked replaced with the content and the descriptor it started with
ReplacedOnlyIfChangedWitness ==
  /\ ContentSteps
  /\ pc = "put"
  /\ Len(dag) = 1
  /\ Len(ran) = 2
  /\ stepsManifest[1].kind = "annotation"
  /\ stepsManifest[1].value # ""
  /\ stepsManifest[2].kind = "annotation"
  /\ stepsManifest[2].value = ""
  /\ ran[1].changed
  /\ ran[2].changed
  /\ Start[1].m.Annotations = Nil
  /\ dag[1].mod = replaced
  /\ dag[1].m # Start[1].m
  /\ ManifestDescriptor(dag[1].m) = ManifestDescriptor(Start[1].m)

====
